---------------------------- MODULE Spec2Model ----------------------------
(***************************************************************************)
(* Alchemist: the in-memory Tabular Store (DataHandler), its undo/redo     *)
(* history, and the request handlers of app.py that route a session to the *)
(* in-memory table or to a disk-backed (SQLite) relation.                  *)
(*                                                                         *)
(* Representation.                                                         *)
(*   - A DataFrame is a record [columns, rows]: columns is the sequence of *)
(*     column names, rows the sequence of rows, each row a sequence of     *)
(*     cells aligned with columns.                                         *)
(*   - A column name is a sequence of one-character strings, so that       *)
(*     sanitize_column_names can be computed character by character.       *)
(*   - A cell is a string; NaN stands for a missing value.                 *)
(*   - Python's None / a DataFrame is an optional: <<>> is None, <<df>> a  *)
(*     DataFrame.                                                          *)
(*   - A history entry is modelled by its 'data' field; its 'timestamp'    *)
(*     and 'description' only label it in messages and in the listing of   *)
(*     get_operation_history.                                              *)
(***************************************************************************)
EXTENDS Bags, Integers, Sequences, FiniteSets, TLC

VARIABLES
    data,               \* DataHandler.data            (optional DataFrame)
    original_data,      \* DataHandler.original_data   (optional DataFrame)
    aliased,            \* data and original_data refer to one DataFrame object
    operation_history,  \* DataHandler.operation_history (undo stack)
    redo_stack,         \* DataHandler.redo_stack
    sessions,           \* app.sessions: session id -> session_data
    session_folder,     \* SESSION_FOLDER: the session files, and whether they can be written
    running,            \* the requests in progress: worker -> position in its handler
    collaborators,      \* visualizer.data and stats_calculator.data
    last                \* the last request served: handler, routing, success

vars == <<data, original_data, aliased, operation_history, redo_stack, sessions,
          session_folder, running, collaborators, last>>

-----------------------------------------------------------------------------
(* Bounds of the model *)

\* Spec issues no clean or merge request once the undo stack holds this many
\* entries (SpecCap runs to the cap of the program)
MaxDepth == 1

\* longest operation list of one clean or transform request
MaxOps == 2

\* the number of rows of the paged relation: two full pages of the largest
\* size and a partial one
PageRows == 1001

\* the longest run of pages that is put together again
MaxPages == 6

\* the longest text that is fingerprinted
MaxText == 3

(* Program constants *)

max_history == 50

\* sizes are counted in MiB
LARGE_FILE_THRESHOLD_BYTES == 25

MAX_UPLOAD_MB == 100

\* the largest page_size get_data_page serves
MaxPageSize == 500

-----------------------------------------------------------------------------
(* Python values *)

None == <<>>

Some(x) == <<x>>

NaN == "NaN"

Range(s) == {s[i] : i \in 1..Len(s)}

\* list(S) of a collection given as a set
RECURSIVE SeqOf(_)
SeqOf(S) ==
    IF S = {} THEN <<>>
    ELSE LET x == CHOOSE y \in S : TRUE IN <<x>> \o SeqOf(S \ {x})

\* the subsequence of s at the indices in keep, in order
RECURSIVE SelectIdx(_, _, _)
SelectIdx(s, keep, i) ==
    IF i > Len(s) THEN <<>>
    ELSE (IF i \in keep THEN <<s[i]>> ELSE <<>>) \o SelectIdx(s, keep, i + 1)

-----------------------------------------------------------------------------
(* Characters and column names *)

Letters == {"a", "b", "c", "o", "l", "u", "n", "m", "e", "d"}

Digits == {"1", "2", "3"}

IsAlnum(c) == c \in Letters \cup Digits

DigitStr(n) == IF n = 1 THEN "1" ELSE IF n = 2 THEN "2" ELSE "3"

RECURSIVE LStrip(_, _)
LStrip(s, chars) == IF s # <<>> /\ Head(s) \in chars THEN LStrip(Tail(s), chars) ELSE s

RECURSIVE RStrip(_, _)
RStrip(s, chars) ==
    IF s # <<>> /\ s[Len(s)] \in chars THEN RStrip(SubSeq(s, 1, Len(s) - 1), chars) ELSE s

\* str.strip(chars)
Strip(s, chars) == RStrip(LStrip(s, chars), chars)

Whitespace == {" "}

\* ''.join(c if c.isalnum() or c == '_' else '_' for c in new_name)
ReplaceSpecial(s) == [i \in 1..Len(s) |-> IF IsAlnum(s[i]) \/ s[i] = "_" THEN s[i] ELSE "_"]

\* while '__' in new_name: new_name = new_name.replace('__', '_')
RECURSIVE CollapseUnderscores(_)
CollapseUnderscores(s) ==
    IF Len(s) < 2 THEN s
    ELSE IF s[1] = "_" /\ s[2] = "_" THEN CollapseUnderscores(Tail(s))
    ELSE <<s[1]>> \o CollapseUnderscores(Tail(s))

\* the name one column gets before it is made unique (helpers.py 229-248)
SanitizeOne(col) ==
    LET n1 == Strip(col, Whitespace)
        n2 == ReplaceSpecial(n1)
        n3 == CollapseUnderscores(n2)
        n4 == Strip(n3, {"_"})
        n5 == IF n4 # <<>> /\ n4[1] \in Digits THEN <<"c", "o", "l", "_">> \o n4 ELSE n4
    IN  IF n5 = <<>>
        THEN <<"u", "n", "n", "a", "m", "e", "d", "_", "c", "o", "l", "u", "m", "n">>
        ELSE n5

\* while new_name in name_mapping.values(): new_name = f"{original}_{counter}"
RECURSIVE MakeUnique(_, _, _, _)
MakeUnique(base, name, counter, taken) ==
    IF name \in taken
    THEN MakeUnique(base, base \o <<"_", DigitStr(counter)>>, counter + 1, taken)
    ELSE name

\* the new names of the first k columns, in column order
RECURSIVE SanitizedNames(_, _)
SanitizedNames(cols, k) ==
    IF k = 0 THEN <<>>
    ELSE LET before == SanitizedNames(cols, k - 1)
             base == SanitizeOne(cols[k])
         IN  Append(before, MakeUnique(base, base, 1, Range(before)))

\* helpers.sanitize_column_names on a DataFrame (df is not None)
sanitize_column_names(df) ==
    [columns |-> SanitizedNames(df.columns, Len(df.columns)), rows |-> df.rows]

-----------------------------------------------------------------------------
(* DataFrames *)

\* the order of str values, as Python compares them
CellOrder == <<"nan", "v", "x", "y">>

Rank(c) == CHOOSE i \in 1..Len(CellOrder) : CellOrder[i] = c

Name(c) == <<c>>

ColIdx(df, col) == CHOOSE i \in 1..Len(df.columns) : df.columns[i] = col

HasCol(df, col) == col \in Range(df.columns)

\* df.empty: some axis has length 0
IsEmptyDF(df) == Len(df.rows) = 0 \/ Len(df.columns) = 0

\* the last occurrence of every row kept
drop_duplicates_last(df) ==
    LET keep == {i \in 1..Len(df.rows) :
                    \A j \in (i + 1)..Len(df.rows) : df.rows[j] # df.rows[i]}
    IN  [df EXCEPT !.rows = SelectIdx(df.rows, keep, 1)]

\* df.drop_duplicates(): the first occurrence of every row is kept
drop_duplicates(df) ==
    LET keep == {i \in 1..Len(df.rows) : \A j \in 1..(i - 1) : df.rows[j] # df.rows[i]}
    IN  [df EXCEPT !.rows = SelectIdx(df.rows, keep, 1)]

\* df.dropna(subset=cols, how=how); cols are column indices
dropna_rows(df, cols, how) ==
    LET missing(i) == {c \in cols : df.rows[i][c] = NaN}
        drop(i) == IF how = "all"
                   THEN cols # {} /\ missing(i) = cols
                   ELSE missing(i) # {}
        keep == {i \in 1..Len(df.rows) : ~drop(i)}
    IN  [df EXCEPT !.rows = SelectIdx(df.rows, keep, 1)]

\* df.dropna(axis=1, how='all'): columns with no value at all are dropped
dropna_columns(df) ==
    LET keep == {c \in 1..Len(df.columns) : \E i \in 1..Len(df.rows) : df.rows[i][c] # NaN}
    IN  [columns |-> SelectIdx(df.columns, keep, 1),
         rows |-> [i \in 1..Len(df.rows) |-> SelectIdx(df.rows[i], keep, 1)]]

\* Series.mode(): the most frequent values, NaN left out, ascending
ModeValues(df, c) ==
    LET count(v) == Cardinality({i \in 1..Len(df.rows) : df.rows[i][c] = v})
        present == {v \in Range(CellOrder) : count(v) > 0}
    IN  {v \in present : \A w \in present : count(w) <= count(v)}

MinCell(S) == CHOOSE v \in S : \A w \in S : Rank(v) <= Rank(w)

\* Series.fillna(value)
fillna(df, c, value) ==
    [df EXCEPT !.rows = [i \in 1..Len(df.rows) |->
        [df.rows[i] EXCEPT ![c] = IF @ = NaN THEN value ELSE @]]]

\* df.rename(columns={old: new}): a name that is no column is ignored
rename(df, old, new) ==
    [df EXCEPT !.columns = [i \in 1..Len(df.columns) |->
        IF df.columns[i] = old THEN new ELSE df.columns[i]]]

\* df.drop(columns=cols, errors='ignore')
drop_columns(df, cols) ==
    LET keep == {c \in 1..Len(df.columns) : df.columns[c] \notin Range(cols)}
    IN  [columns |-> SelectIdx(df.columns, keep, 1),
         rows |-> [i \in 1..Len(df.rows) |-> SelectIdx(df.rows[i], keep, 1)]]

\* the row indices whose cell in column c has rank r, in row order
RECURSIVE RowsOfRank(_, _, _, _)
RowsOfRank(df, c, r, i) ==
    IF i > Len(df.rows) THEN <<>>
    ELSE (IF df.rows[i][c] # NaN /\ Rank(df.rows[i][c]) = r THEN <<i>> ELSE <<>>)
         \o RowsOfRank(df, c, r, i + 1)

RECURSIVE SortedIdx(_, _, _, _)
SortedIdx(df, c, ascending, k) ==
    IF k > Len(CellOrder) THEN <<>>
    ELSE RowsOfRank(df, c, IF ascending THEN k ELSE Len(CellOrder) + 1 - k, 1)
         \o SortedIdx(df, c, ascending, k + 1)

\* df.sort_values(by=[col], ascending=ascending): equal keys keep their row
\* order, missing values go last
sort_values(df, c, ascending) ==
    LET nan == SelectIdx([i \in 1..Len(df.rows) |-> i],
                         {i \in 1..Len(df.rows) : df.rows[i][c] = NaN}, 1)
        idx == SortedIdx(df, c, ascending, 1) \o nan
    IN  [df EXCEPT !.rows = [i \in 1..Len(idx) |-> df.rows[idx[i]]]]

\* df[column].astype(str).replace(mapping): NaN becomes the text 'nan'
replace_values(df, c, values, canonical) ==
    [df EXCEPT !.rows = [i \in 1..Len(df.rows) |->
        [df.rows[i] EXCEPT ![c] =
            LET text == IF @ = NaN THEN "nan" ELSE @
            IN  IF text \in values THEN canonical ELSE text]]]

-----------------------------------------------------------------------------
(* DataHandler: the Tabular Store.  A store h is the record of the fields  *)
(* of the DataHandler object; every method returns [ok, error, h]: the     *)
(* 'success' and 'error' of its result and the store it leaves.            *)

Store == [data |-> data, original_data |-> original_data,
          operation_history |-> operation_history, redo_stack |-> redo_stack,
          aliased |-> aliased]

Result(ok, error, h) == [ok |-> ok, error |-> error, h |-> h]

NoFrame == [columns |-> <<>>, rows |-> <<>>]

\* what a reader makes of the bytes of a file
Frame(df) == [kind |-> "frame", df |-> df]

Unreadable(kind) == [kind |-> kind, df |-> NoFrame]

\* load_data without the clearing of self.data and self.original_data that
\* opens it
load_data_keeps(h, file, file_type) ==
    LET loaded == [h EXCEPT !.data = Some(file.body.df),
                            !.original_data = Some(file.body.df)]
    IN  IF file_type = file.format /\ file.body.kind = "frame"
           /\ file_type \in {"csv", "excel", "json", "sqlite"}
        THEN Result(TRUE, "", loaded)
        ELSE Result(FALSE, "Error loading file", h)

\* DataHandler.load_data(file_content, file_type)
load_data(h, file, file_type) ==
    LET cleared == [h EXCEPT !.data = None, !.original_data = None]
        loaded == [cleared EXCEPT !.data = Some(file.body.df),
                                  !.original_data = Some(file.body.df),
                                  !.aliased = FALSE]
    IN  IF file_type \notin {"csv", "excel", "json", "sqlite"}
        THEN Result(FALSE, "Error loading file: Unsupported file type", cleared)
        ELSE IF file_type # file.format
        THEN Result(FALSE, "Error loading file", cleared)
        ELSE IF file.body.kind = "json_error"
        THEN Result(FALSE, "Invalid JSON format", cleared)
        ELSE IF file.body.kind = "no_tables"
        THEN Result(FALSE, "No tables found in the SQLite database", cleared)
        ELSE IF file.body.kind = "frame"
        THEN Result(TRUE, "", loaded)
        ELSE Result(FALSE, "Error loading file", cleared)

\* save_state that discards the newest entry, not the oldest, at the cap
save_state_drops_newest(h) ==
    IF h.data # None
    THEN LET pushed == Append(h.operation_history, [data |-> h.data[1]])
         IN  [h EXCEPT !.operation_history =
                          IF Len(pushed) > max_history
                          THEN SubSeq(pushed, 1, max_history) ELSE pushed,
                       !.redo_stack = <<>>]
    ELSE h

\* DataHandler.save_state(operation_description)
save_state(h) ==
    IF h.data # None
    THEN LET pushed == Append(h.operation_history, [data |-> h.data[1]])
         IN  [h EXCEPT !.operation_history =
                          IF Len(pushed) > max_history THEN Tail(pushed) ELSE pushed,
                       !.redo_stack = <<>>]
    ELSE h

\* undo that forgets the redo stack when there is nothing to undo
undo_forgets(h) ==
    IF Len(h.operation_history) = 0
    THEN Result(FALSE, "No operations to undo", [h EXCEPT !.redo_stack = <<>>])
    ELSE LET n == Len(h.operation_history)
         IN  Result(TRUE, "",
                [h EXCEPT !.redo_stack =
                              IF h.data # None THEN Append(@, [data |-> h.data[1]]) ELSE @,
                          !.operation_history = SubSeq(@, 1, n - 1),
                          !.data = Some(h.operation_history[n].data)])

\* DataHandler.undo()
undo(h) ==
    IF Len(h.operation_history) = 0
    THEN Result(FALSE, "No operations to undo", h)
    ELSE LET n == Len(h.operation_history)
             previous_state == h.operation_history[n]
         IN  Result(TRUE, "",
                [h EXCEPT !.redo_stack =
                              IF h.data # None
                              THEN Append(@, [data |-> h.data[1]])
                              ELSE @,
                          !.operation_history = SubSeq(@, 1, n - 1),
                          !.data = Some(previous_state.data),
                          !.aliased = FALSE])

\* redo that does not save the current table to the undo stack
redo_without_push(h) ==
    IF Len(h.redo_stack) = 0
    THEN Result(FALSE, "No operations to redo", h)
    ELSE LET n == Len(h.redo_stack)
         IN  Result(TRUE, "",
                [h EXCEPT !.redo_stack = SubSeq(@, 1, n - 1),
                          !.data = Some(h.redo_stack[n].data)])

\* DataHandler.redo()
redo(h) ==
    IF Len(h.redo_stack) = 0
    THEN Result(FALSE, "No operations to redo", h)
    ELSE LET n == Len(h.redo_stack)
             redo_state == h.redo_stack[n]
         IN  Result(TRUE, "",
                [h EXCEPT !.operation_history =
                              IF h.data # None
                              THEN Append(@, [data |-> h.data[1]])
                              ELSE @,
                          !.redo_stack = SubSeq(@, 1, n - 1),
                          !.data = Some(redo_state.data),
                          !.aliased = FALSE])

\* reset that leaves the redo stack
reset_keeps_redo(h) ==
    IF h.original_data = None
    THEN Result(FALSE, "No original data available to reset to", h)
    ELSE Result(TRUE, "",
            [h EXCEPT !.data = h.original_data, !.operation_history = <<>>])

\* reset that assigns the snapshot itself and no copy of it
reset_without_copy(h) ==
    IF h.original_data = None
    THEN Result(FALSE, "No original data available to reset to", h)
    ELSE Result(TRUE, "",
            [h EXCEPT !.data = h.original_data,
                      !.aliased = TRUE,
                      !.operation_history = <<>>,
                      !.redo_stack = <<>>])

\* DataHandler.reset()
reset(h) ==
    IF h.original_data = None
    THEN Result(FALSE, "No original data available to reset to", h)
    ELSE Result(TRUE, "",
            [h EXCEPT !.data = h.original_data,
                      !.aliased = FALSE,
                      !.operation_history = <<>>,
                      !.redo_stack = <<>>])

\* the numerals of the numeric columns
Numerals == {"1", "2", "3", "4", "5", "100"}

\* the number a numeral of a CSV is read as
Number(cell) == IF cell = "100" THEN 100 ELSE CHOOSE i \in 1..5 : ToString(i) = cell

\* a column that quantile takes: it holds numbers and missing values only
IsNumeric(df, c) == \A i \in 1..Len(df.rows) : df.rows[i][c] \in Numerals \cup {NaN}

\* a number put into an ascending list
RECURSIVE InsertNumber(_, _)
InsertNumber(sorted, n) ==
    IF sorted = <<>> THEN <<n>>
    ELSE IF n <= Head(sorted) THEN <<n>> \o sorted
    ELSE <<Head(sorted)>> \o InsertNumber(Tail(sorted), n)

\* the numbers of a column in ascending order, the missing values left out
RECURSIVE SortedNumbers(_, _, _)
SortedNumbers(df, c, i) ==
    IF i > Len(df.rows) THEN <<>>
    ELSE IF df.rows[i][c] = NaN THEN SortedNumbers(df, c, i + 1)
    ELSE InsertNumber(SortedNumbers(df, c, i + 1), Number(df.rows[i][c]))

\* Series.quantile(q4 / 4), times 4: linear interpolation between the two
\* numbers around position (n - 1) * q4 / 4; NaN, here None, without a number
quantile(sorted, q4) ==
    LET pos == (Len(sorted) - 1) * q4
        below == sorted[(pos \div 4) + 1]
    IN  IF sorted = <<>> THEN None
        ELSE IF pos % 4 = 0 THEN Some(4 * below)
        ELSE Some(4 * below + (pos % 4) * (sorted[(pos \div 4) + 2] - below))

\* the quartiles themselves taken as the bounds
Bounds_quartiles(Q1, Q3) == [lower_bound |-> 2 * Q1, upper_bound |-> 2 * Q3]

\* lower_bound = Q1 - 1.5 * IQR and upper_bound = Q3 + 1.5 * IQR, times 8, of
\* the quartiles times 4
Bounds(Q1, Q3) ==
    [lower_bound |-> 2 * Q1 - 3 * (Q3 - Q1), upper_bound |-> 2 * Q3 + 3 * (Q3 - Q1)]

\* self.data[(self.data[column] >= lower_bound) & (self.data[column] <= upper_bound)]:
\* a comparison with NaN, of a value or of a bound, is False
within_bounds(df, c) ==
    LET sorted == SortedNumbers(df, c, 1)
        Q1 == quantile(sorted, 1)
        Q3 == quantile(sorted, 3)
        b == Bounds(Q1[1], Q3[1])
        keep == IF sorted = <<>> THEN {}
                ELSE {i \in 1..Len(df.rows) :
                        /\ df.rows[i][c] # NaN
                        /\ 8 * Number(df.rows[i][c]) >= b.lower_bound
                        /\ 8 * Number(df.rows[i][c]) <= b.upper_bound}
    IN  [df EXCEPT !.rows = SelectIdx(df.rows, keep, 1)]

\* the entry an operation appends to results: df is the frame before it, d
\* the frame after it
CleanResult(op, df, d) ==
    CASE op.type \in {"remove_duplicates", "remove_missing"} ->
            [operation |-> op.type, removed |-> Len(df.rows) - Len(d.rows)]
      [] op.type = "remove_outliers" ->
            [operation |-> op.type, column |-> op.column, method |-> op.method,
             removed |-> Len(df.rows) - Len(d.rows)]
      [] op.type = "fill_missing" ->
            [operation |-> op.type, column |-> op.column,
             filled |-> Cardinality({i \in 1..Len(df.rows) : df.rows[i] # d.rows[i]})]
      [] op.type = "clean_text" ->
            [operation |-> op.type, columns |-> op.columns,
             text_operations |-> op.text_operations]
      [] OTHER ->
            [operation |-> op.type, target |-> op.target,
             before_shape |-> <<Len(df.rows), Len(df.columns)>>,
             after_shape |-> <<Len(d.rows), Len(d.columns)>>,
             removed_rows |-> IF op.target = "rows" THEN Len(df.rows) - Len(d.rows) ELSE 0,
             removed_columns |-> IF op.target = "columns"
                                 THEN Len(df.columns) - Len(d.columns) ELSE 0]

\* str(Series.dtype) of column c as pandas reads it from a file
dtype(df, c) ==
    IF \A i \in 1..Len(df.rows) : df.rows[i][c] \in Numerals THEN "int64"
    ELSE IF IsNumeric(df, c) THEN "float64"
    ELSE "object"

\* Series.astype(target_type) of column c: [raised, df].  str makes a text
\* of every cell, 'nan' of a missing one; int raises on a text and on a
\* missing value, float on a text; a type numpy does not know raises.
astype(df, c, target_type) ==
    LET cells == {df.rows[i][c] : i \in 1..Len(df.rows)}
        same == [raised |-> FALSE, df |-> df]
        raise == [raised |-> TRUE, df |-> df]
    IN  CASE target_type = "str" ->
                [raised |-> FALSE,
                 df |-> [df EXCEPT !.rows = [i \in 1..Len(df.rows) |->
                            [df.rows[i] EXCEPT ![c] = IF @ = NaN THEN "nan" ELSE @]]]]
          [] target_type = "int" -> IF cells \subseteq Numerals THEN same ELSE raise
          [] target_type = "float" -> IF cells \subseteq Numerals \cup {NaN} THEN same ELSE raise
          [] OTHER -> raise

\* The operation convert_type of clean_data: [raised, df, results].  The
\* column is assigned inside a try whose except clause appends an entry with
\* 'error'; the entry of a success is built after the assignment and reads
\* the dtype of the column in original_data.
ConvertType(df, original, op) ==
    LET failed(d) == [raised |-> FALSE, df |-> d,
                      results |-> <<[operation |-> op.type, column |-> op.column,
                                     error |-> "exception"]>>]
    IN  IF ~HasCol(df, op.column) THEN failed(df)
        ELSE LET r == astype(df, ColIdx(df, op.column), op.target_type)
             IN  IF r.raised THEN failed(df)
                 ELSE IF original = None \/ ~HasCol(original[1], op.column)
                 THEN failed(r.df)
                 ELSE [raised |-> FALSE, df |-> r.df,
                       results |-> <<[operation |-> op.type, column |-> op.column,
                                      from_type |-> dtype(original[1],
                                                          ColIdx(original[1], op.column)),
                                      to_type |-> op.target_type]>>]

\* One operation of clean_data on the DataFrame df: [raised, df].  raised
\* is TRUE when the operation raises (a column that does not exist, a fill
\* value of None); df is the frame it leaves.
\* results holds what the operation appends to results.
\* The operation convert_type reads original_data: it is ConvertType.
CleanStep(df, op) ==
    LET done(d) == [raised |-> FALSE, df |-> d, results |-> <<CleanResult(op, df, d)>>]
        skip == [raised |-> FALSE, df |-> df, results |-> <<>>]
        raise == [raised |-> TRUE, df |-> df, results |-> <<>>]
    IN  CASE op.type = "remove_duplicates" -> done(drop_duplicates(df))
          [] op.type = "fill_missing" ->
                IF ~HasCol(df, op.column) THEN raise
                ELSE LET c == ColIdx(df, op.column)
                         fill_value ==
                             IF op.method = "mode" /\ ModeValues(df, c) # {}
                             THEN Some(MinCell(ModeValues(df, c)))
                             ELSE op.value
                     IN  IF fill_value = None THEN raise
                         ELSE done(fillna(df, c, fill_value[1]))
          [] op.type = "remove_missing" ->
                IF op.columns # <<>>
                THEN IF \E i \in 1..Len(op.columns) : ~HasCol(df, op.columns[i])
                     THEN raise
                     ELSE done(dropna_rows(df,
                             {ColIdx(df, op.columns[i]) : i \in 1..Len(op.columns)}, op.how))
                ELSE done(dropna_rows(df, 1..Len(df.columns), op.how))
          [] op.type = "clean_text" ->
                \* requests name no column here: the loop over columns is empty
                done(df)
          [] op.type = "remove_empty" ->
                IF op.target = "rows" THEN done(dropna_rows(df, 1..Len(df.columns), "all"))
                ELSE IF op.target = "columns" THEN done(dropna_columns(df))
                ELSE done(df)
          [] op.type = "remove_outliers" ->
                IF op.method # "iqr" THEN skip
                ELSE IF ~HasCol(df, op.column) \/ ~IsNumeric(df, ColIdx(df, op.column))
                THEN raise
                ELSE done(within_bounds(df, ColIdx(df, op.column)))
          [] OTHER -> skip

\* the operation assigns self.data a new DataFrame (self.data = ...); the
\* others assign a column of the DataFrame self.data refers to
\* (self.data[column] = ...) or assign nothing
Rebinds(op) ==
    \/ op.type \in {"remove_duplicates", "remove_missing"}
    \/ op.type = "remove_outliers" /\ op.method = "iqr"
    \/ op.type = "remove_empty" /\ op.target \in {"rows", "columns"}

\* the operations applied in order until one raises; original is
\* self.original_data.  rebound tells whether
\* self.data refers to another DataFrame than at the call, and object is the
\* DataFrame it referred to at the call, as the operations left it.
RECURSIVE CleanLoop(_, _, _, _)
CleanLoop(df, original, operations, i) ==
    IF i > Len(operations)
    THEN [raised |-> FALSE, df |-> df, results |-> <<>>, rebound |-> FALSE, object |-> df]
    ELSE LET joined(r, rest) ==
                 IF Rebinds(operations[i])
                 THEN [rest EXCEPT !.results = r.results \o @, !.rebound = TRUE, !.object = df]
                 ELSE [rest EXCEPT !.results = r.results \o @]
             after(r) ==
                 IF r.raised
                 THEN [raised |-> TRUE, df |-> r.df, results |-> <<>>, rebound |-> FALSE,
                       object |-> r.df]
                 ELSE joined(r, CleanLoop(r.df, original, operations, i + 1))
         IN  after(IF operations[i].type = "convert_type"
                   THEN ConvertType(df, original, operations[i])
                   ELSE CleanStep(df, operations[i]))

\* DataHandler.clean_data(operations)
clean_data(h, operations) ==
    IF h.data = None
    THEN Result(FALSE, "NoneType", h) @@ [results |-> <<>>, rebound |-> FALSE, object |-> None]
    ELSE LET returned(r) ==
                 Result(~r.raised, IF r.raised THEN "exception" ELSE "",
                        [h EXCEPT !.data = Some(r.df),
                                  !.original_data = IF h.aliased THEN Some(r.object) ELSE @,
                                  !.aliased = @ /\ ~r.rebound])
                 @@ [results |-> IF r.raised THEN <<>> ELSE r.results,
                     rebound |-> r.rebound, object |-> Some(r.object)]
         IN  returned(CleanLoop(h.data[1], h.original_data, operations, 1))

\* One transformation of transform_data: [raised, df].  The expression of
\* a create_column is the name of a column: eval returns that column, and
\* raises on a name the table does not have.  The transformation
\* group_aggregate is no request of the model.
TransformStep(df, t) ==
    LET done(d) == [raised |-> FALSE, df |-> d]
        raise == [raised |-> TRUE, df |-> df]
    IN  CASE t.type = "create_column" ->
                IF ~HasCol(df, t.expression) THEN raise
                ELSE LET c == ColIdx(df, t.expression)
                     IN  IF HasCol(df, t.new_column)
                         THEN done([df EXCEPT !.rows = [i \in 1..Len(df.rows) |->
                                      [df.rows[i] EXCEPT ![ColIdx(df, t.new_column)] =
                                                             df.rows[i][c]]]])
                         ELSE done([columns |-> Append(df.columns, t.new_column),
                                    rows |-> [i \in 1..Len(df.rows) |->
                                                Append(df.rows[i], df.rows[i][c])]])
          [] t.type = "rename_column" -> done(rename(df, t.old_name, t.new_name))
          [] t.type = "drop_column" -> done(drop_columns(df, t.columns))
          [] t.type = "sort" ->
                \* requests sort by one column
                IF ~HasCol(df, t.columns[1]) THEN raise
                ELSE done(sort_values(df, ColIdx(df, t.columns[1]), t.ascending))
          [] OTHER -> done(df)

\* rebound and object as in CleanLoop: rename, drop and sort_values return
\* a new DataFrame that is assigned to self.data
RECURSIVE TransformLoop(_, _, _)
TransformLoop(df, transformations, i) ==
    IF i > Len(transformations)
    THEN [raised |-> FALSE, df |-> df, rebound |-> FALSE, object |-> df]
    ELSE LET r == TransformStep(df, transformations[i])
             rest == TransformLoop(r.df, transformations, i + 1)
         IN  IF r.raised
             THEN [raised |-> TRUE, df |-> r.df, rebound |-> FALSE, object |-> r.df]
             ELSE IF transformations[i].type \in {"rename_column", "drop_column", "sort"}
             THEN [rest EXCEPT !.rebound = TRUE, !.object = df]
             ELSE rest

\* DataHandler.transform_data(transformations)
transform_data(h, transformations) ==
    IF h.data = None
    THEN Result(FALSE, "NoneType", h) @@ [rebound |-> FALSE, object |-> None]
    ELSE LET returned(r) ==
                 Result(~r.raised, IF r.raised THEN "exception" ELSE "",
                        [h EXCEPT !.data = Some(r.df),
                                  !.original_data = IF h.aliased THEN Some(r.object) ELSE @,
                                  !.aliased = @ /\ ~r.rebound])
                 @@ [rebound |-> r.rebound, object |-> Some(r.object)]
         IN  returned(TransformLoop(h.data[1], transformations, 1))

\* str(x): the characters of a cell or of a filter value; a missing cell
\* reads "nan" after astype(str)
Text(x) ==
    CASE x \in {"nan", NaN} -> <<"n", "a", "n">>
      [] x = "X " -> <<"X", " ">>
      [] x = "x " -> <<"x", " ">>
      [] x = "--" -> <<"-", "-">>
      [] OTHER -> <<x>>

\* str.lower()
LowerText(t) ==
    [i \in 1..Len(t) |-> CASE t[i] = "X" -> "x" [] t[i] = "V" -> "v" [] OTHER -> t[i]]

\* upper() of a text
UpperText(t) ==
    [i \in 1..Len(t) |-> CASE t[i] = "x" -> "X" [] t[i] = "v" -> "V" [] OTHER -> t[i]]

\* the cell that holds a text
CellOf(t) == CHOOSE x \in {"nan", "X ", "x ", "X", "x", "V", "v", "y", "-", "--"} : Text(x) = t

\* DataFrame.head(n): the first n rows, and for a negative n all rows but the
\* last -n
head(df, n) ==
    LET k == IF n >= 0 THEN (IF n < Len(df.rows) THEN n ELSE Len(df.rows))
             ELSE (IF Len(df.rows) + n > 0 THEN Len(df.rows) + n ELSE 0)
    IN  [df EXCEPT !.rows = SubSeq(df.rows, 1, k)]

\* preview_data[col].astype(str).str.strip() / .lower() / .upper(), for each
\* text operation of a clean_text operation: a missing value reads "nan"
PreviewText(df, c, op) ==
    LET trim(t) == IF "trim_whitespace" \in op.text_operations THEN Strip(t, Whitespace) ELSE t
        case(t) == IF "normalize_case" \in op.text_operations
                   THEN (IF op.case_type = "upper" THEN UpperText(t)
                         ELSE IF op.case_type = "lower" THEN LowerText(t) ELSE t)
                   ELSE t
    IN  IF op.text_operations = {} THEN df
        ELSE [df EXCEPT !.rows = [i \in 1..Len(df.rows) |->
                 [df.rows[i] EXCEPT ![c] = CellOf(case(trim(Text(@))))]]]

\* for col in columns: if col in preview_data.columns
RECURSIVE PreviewTextLoop(_, _, _)
PreviewTextLoop(df, op, i) ==
    IF i > Len(op.columns) THEN df
    ELSE PreviewTextLoop(IF HasCol(df, op.columns[i])
                         THEN PreviewText(df, ColIdx(df, op.columns[i]), op) ELSE df,
                         op, i + 1)

\* One operation of preview_operations on the sample preview_data:
\* [raised, df, results]
PreviewStep(preview_data, op) ==
    CASE op.type = "clean_text" ->
            [raised |-> FALSE, df |-> PreviewTextLoop(preview_data, op, 1),
             results |-> <<[operation |-> op.type, columns |-> op.columns,
                            text_operations |-> op.text_operations,
                            affected_rows |-> Len(preview_data.rows)]>>]
      [] op.type \in {"remove_empty", "remove_duplicates", "fill_missing"} ->
            CleanStep(preview_data, op)
      [] OTHER -> [raised |-> FALSE, df |-> preview_data, results |-> <<>>]

RECURSIVE PreviewLoop(_, _, _)
PreviewLoop(df, operations, i) ==
    IF i > Len(operations) THEN [raised |-> FALSE, df |-> df, results |-> <<>>]
    ELSE LET r == PreviewStep(df, operations[i])
             rest == PreviewLoop(r.df, operations, i + 1)
         IN  IF r.raised THEN r ELSE [rest EXCEPT !.results = r.results \o @]

\* a preview that works on self.data and not on a copy of its first rows
preview_operations_in_place(h, operations, sample_size, source_data) ==
    LET r == PreviewLoop(head(h.data[1], sample_size), operations, 1)
    IN  IF h.data = None
        THEN Result(FALSE, "No data loaded", h)
             @@ [original_data |-> NoFrame, preview_data |-> NoFrame, results |-> <<>>]
        ELSE Result(~r.raised, IF r.raised THEN "exception" ELSE "",
                    [h EXCEPT !.data = Some(r.df)])
             @@ [original_data |-> head(h.data[1], sample_size), preview_data |-> r.df,
                 results |-> r.results]

\* DataHandler.preview_operations(operations, sample_size, source_data).
\* source_data is None or the rows of the request as a frame; the sample is
\* a copy, and self is read only.
preview_operations(h, operations, sample_size, source_data) ==
    LET none == [original_data |-> NoFrame, preview_data |-> NoFrame, results |-> <<>>]
        run(original_preview) ==
            LET r == PreviewLoop(original_preview, operations, 1)
            IN  IF r.raised THEN Result(FALSE, "exception", h) @@ none
                ELSE Result(TRUE, "", h)
                     @@ [original_data |-> original_preview, preview_data |-> r.df,
                         results |-> r.results]
    IN  IF source_data # None /\ Len(source_data[1].rows) > 0
        THEN run(head(source_data[1], sample_size))
        ELSE IF h.data # None THEN run(head(h.data[1], sample_size))
        ELSE Result(FALSE, "No data loaded", h) @@ none

\* str.contains: pattern occurs in text (patterns are plain letters)
Contains(text, pattern) ==
    \E i \in 0..(Len(text) - Len(pattern)) :
        SubSeq(text, i + 1, i + Len(pattern)) = pattern

\* the boolean mask of one filter condition f at a cell of its column; an
\* operator filter_data does not know selects every row
Matches(cell, f) ==
    LET str_value == LowerText(Strip(Text(f.value), Whitespace))
        col == LowerText(Text(cell))
    IN  CASE f.operator = "equals" -> col = str_value
          [] f.operator = "not_equals" -> col # str_value
          [] f.operator = "greater_than" -> cell # NaN /\ Rank(cell) > Rank(f.value)
          [] f.operator = "less_than" -> cell # NaN /\ Rank(cell) < Rank(f.value)
          [] f.operator = "contains" -> Contains(col, str_value)
          [] f.operator = "not_contains" -> ~Contains(col, str_value)
          [] OTHER -> TRUE

KnownOperators == {"equals", "not_equals", "greater_than", "less_than",
                   "contains", "not_contains"}

\* One filter condition of filter_data on the frame df: [raised, df]
FilterStep(df, f) ==
    IF f.operator \notin KnownOperators THEN [raised |-> FALSE, df |-> df]
    ELSE IF ~HasCol(df, f.column) THEN [raised |-> TRUE, df |-> df]
    ELSE LET c == ColIdx(df, f.column)
         IN  [raised |-> FALSE,
              df |-> [df EXCEPT !.rows =
                        SelectIdx(df.rows, {i \in 1..Len(df.rows) : Matches(df.rows[i][c], f)}, 1)]]

\* a loop that applies every condition to the stored table, so that only
\* the last condition decides
RECURSIVE FilterLoop_last(_, _, _)
FilterLoop_last(df, filters, i) ==
    IF i > Len(filters) THEN [raised |-> FALSE, df |-> df]
    ELSE LET r == FilterStep(df, filters[i])
         IN  IF r.raised THEN r
             ELSE IF i = Len(filters) THEN r
             ELSE FilterLoop_last(df, filters, i + 1)

\* the conditions applied in order, each to what the one before left
RECURSIVE FilterLoop(_, _, _)
FilterLoop(df, filters, i) ==
    IF i > Len(filters) THEN [raised |-> FALSE, df |-> df]
    ELSE LET r == FilterStep(df, filters[i])
         IN  IF r.raised THEN r ELSE FilterLoop(r.df, filters, i + 1)

\* DataHandler.filter_data(filters): the store is only read; 'rows' are the
\* rows of the 'data' of the result
filter_data(h, filters) ==
    IF h.data = None
    THEN [ok |-> FALSE, error |-> "NoneType", h |-> h, rows |-> <<>>]
    ELSE LET r == FilterLoop(h.data[1], filters, 1)
         IN  [ok |-> ~r.raised, error |-> IF r.raised THEN "exception" ELSE "",
              h |-> h, rows |-> IF r.raised THEN <<>> ELSE r.df.rows]

\* DataHandler.export_data(format_type)
export_data(h, format_type) ==
    IF h.data = None THEN Result(FALSE, "No data to export", h)
    ELSE IF format_type \in {"csv", "excel", "json"} THEN Result(TRUE, "", h)
    ELSE Result(FALSE, "Unsupported format", h)

-----------------------------------------------------------------------------
(* helpers.py *)

\* helpers.get_file_type(file_content, filename): the extension decides; a
\* name whose extension and MIME type say nothing is sniffed by content
get_file_type(file) ==
    IF file.ext = "csv" THEN "csv"
    ELSE IF file.ext \in {"xlsx", "xls", "xlsm"} THEN "excel"
    ELSE IF file.ext = "json" THEN "json"
    ELSE IF file.format = "json" /\ file.body.kind # "json_error" THEN "json"
    ELSE IF file.format = "csv" THEN "csv"
    ELSE "unknown"

\* helpers.validate_file_size(file_content): 'valid'
validate_file_size(file) == file.size <= MAX_UPLOAD_MB

\* helpers.validate_dataframe_structure(df): 'valid'
validate_dataframe_structure(df) ==
    /\ ~IsEmptyDF(df)
    /\ Len(df.columns) = Cardinality(Range(df.columns))

-----------------------------------------------------------------------------
(* app.py: _fingerprint, the clustering key of a value.  A value is a text, *)
(* a sequence of one-character strings.                                     *)

\* the characters of [a-z0-9], by code point
CharOrder == <<"1", "2", "3", "a", "b", "c", "d", "e", "l", "m", "n", "o", "u", "v", "x", "y">>

CharRank(c) == CHOOSE i \in 1..Len(CharOrder) : CharOrder[i] = c

\* the class [a-z0-9\s] of the pattern
Kept(c) == c \in Range(CharOrder) \cup Whitespace

\* re.sub(r'[^a-z0-9\s]+', ' ', s): every run of other characters becomes one space
RECURSIVE ReSub(_)
ReSub(s) ==
    IF s = <<>> THEN <<>>
    ELSE IF Kept(Head(s)) THEN <<Head(s)>> \o ReSub(Tail(s))
    ELSE IF Len(s) > 1 /\ ~Kept(s[2]) THEN ReSub(Tail(s))
    ELSE <<" ">> \o ReSub(Tail(s))

\* s.split(): the maximal runs without whitespace
RECURSIVE Split(_, _)
Split(s, token) ==
    IF s = <<>> THEN (IF token = <<>> THEN <<>> ELSE <<token>>)
    ELSE IF Head(s) \in Whitespace
    THEN (IF token = <<>> THEN <<>> ELSE <<token>>) \o Split(Tail(s), <<>>)
    ELSE Split(Tail(s), Append(token, Head(s)))

\* s < t for str: by code point, a proper prefix first
RECURSIVE StrLess(_, _)
StrLess(s, t) ==
    IF t = <<>> THEN FALSE
    ELSE IF s = <<>> THEN TRUE
    ELSE IF Head(s) = Head(t) THEN StrLess(Tail(s), Tail(t))
    ELSE CharRank(Head(s)) < CharRank(Head(t))

\* a token put into a sorted list, after the tokens that are not greater
RECURSIVE Insert(_, _)
Insert(tokens, t) ==
    IF tokens = <<>> THEN <<t>>
    ELSE IF StrLess(t, Head(tokens)) THEN <<t>> \o tokens
    ELSE <<Head(tokens)>> \o Insert(Tail(tokens), t)

\* tokens left in the order of the value
SortTokens_unsorted(tokens) == tokens

\* tokens.sort()
RECURSIVE SortTokens(_)
SortTokens(tokens) ==
    IF tokens = <<>> THEN <<>>
    ELSE Insert(SortTokens(SubSeq(tokens, 1, Len(tokens) - 1)), tokens[Len(tokens)])

\* ' '.join(tokens)
RECURSIVE Join(_)
Join(tokens) ==
    IF tokens = <<>> THEN <<>>
    ELSE IF Len(tokens) = 1 THEN tokens[1]
    ELSE tokens[1] \o <<" ">> \o Join(Tail(tokens))

\* _fingerprint(value); None is an optional without a text
fingerprint(value) ==
    IF value = None THEN <<>>
    ELSE LET s == LowerText(Strip(value[1], Whitespace))
         IN  IF s = <<>> THEN <<>>
             ELSE Join(SortTokens(Split(ReSub(s), <<>>)))

-----------------------------------------------------------------------------
(* app.py: sessions *)

SessionIds == {"s1", "s2"}

\* a request that carries no session id
NoSid == ""

\* session_id and session_id in sessions and sessions[session_id].get('large_mode')
IsLargeSession(ss, sid) ==
    sid # NoSid /\ sid \in DOMAIN ss /\ ss[sid].large_mode

\* the session_data an in-memory upload stores
MemorySession(file_type) ==
    [file_type |-> file_type, large_mode |-> FALSE, large_file |-> None, marks |-> {}]

\* a large CSV upload that stores a session without the large_mode mark
LargeSession_unmarked(relation) ==
    [file_type |-> "csv", large_mode |-> FALSE,
     large_file |-> Some([engine |-> "sqlite", columns |-> relation.columns,
                          total_rows |-> Len(relation.rows), relation |-> relation]),
     marks |-> {}]

\* the session_data a large CSV upload stores; the relation held by the
\* SQLite file of the upload is kept with the session that points to it
LargeSession(relation) ==
    [file_type |-> "csv", large_mode |-> TRUE,
     large_file |-> Some([engine |-> "sqlite", columns |-> relation.columns,
                          total_rows |-> Len(relation.rows), relation |-> relation]),
     marks |-> {}]

\* sessions[session_id] = session_data
PutSession(ss, sid, session_data) ==
    [k \in DOMAIN ss \cup {sid} |-> IF k = sid THEN session_data ELSE ss[k]]

\* sessions[session_id][key] = datetime.now().isoformat(), when the id is known
Mark(ss, sid, key) ==
    IF sid # NoSid /\ sid \in DOMAIN ss
    THEN [ss EXCEPT ![sid].marks = @ \cup {key}]
    ELSE ss

\* json.dump(data, f) of a session: the relation is in the SQLite file, not
\* in the session file
Metadata(session_data) ==
    [file_type |-> session_data.file_type, large_mode |-> session_data.large_mode,
     marks |-> session_data.marks,
     large_file |-> IF session_data.large_file = None THEN None
                    ELSE Some([engine |-> session_data.large_file[1].engine,
                               columns |-> session_data.large_file[1].columns,
                               total_rows |-> session_data.large_file[1].total_rows])]

\* save_session_data that lets the exception of a failed write go up
save_session_data_raises(folder, session_id, session_data) ==
    IF folder.writable
    THEN [raised |-> FALSE, ok |-> TRUE,
          folder |-> [folder EXCEPT !.files = PutSession(@, session_id, Metadata(session_data))]]
    ELSE [raised |-> TRUE, ok |-> FALSE, folder |-> folder]

\* helpers.save_session_data(session_id, data, storage_path): True with the
\* file written, False when makedirs, open or json.dump raises
save_session_data(folder, session_id, session_data) ==
    IF folder.writable
    THEN [raised |-> FALSE, ok |-> TRUE,
          folder |-> [folder EXCEPT !.files = PutSession(@, session_id, Metadata(session_data))]]
    ELSE [raised |-> FALSE, ok |-> FALSE, folder |-> folder]

\* the calls of save_session_data of a response, made on the folder; a
\* handler makes one call at most and drops what it returns
Written(folder, resp) ==
    IF resp.saves = <<>> THEN [raised |-> FALSE, ok |-> TRUE, folder |-> folder]
    ELSE save_session_data(folder, resp.saves[1].session_id, resp.saves[1].session_data)

\* what the handler answers: its response, or the failure of its except
\* clause when a call it made raised
Answer(folder, resp) ==
    IF Written(folder, resp).raised
    THEN [resp EXCEPT !.ok = FALSE, !.error = "exception",
                      !.body = {"success", "error", "traceback"}, !.operation_log = {}]
    ELSE resp

\* app._import_csv_to_sqlite: the relation a CSV file is imported to
import_csv_to_sqlite(file) == sanitize_column_names(file.body.df)

-----------------------------------------------------------------------------
(* app.py: the request handlers.  A handler is an operator from the store  *)
(* h and the session map ss to [ok, error, h, sessions]: the 'success' and *)
(* 'error' of the response and the state the request leaves.               *)

\* body is the set of keys of the JSON object of the response and
\* operation_log the set of keys of its 'operation_log', empty without one.
\* jsonify({'success': False, 'error': ...}) is the body of a failure, with a
\* 'traceback' next to it when it comes from the except clause of a handler.
\* saves holds the calls of save_session_data the handler makes, in order.
\* set_data is what the handler passes to visualizer.set_data and
\* stats_calculator.set_data last: "data" for data_handler.data, "None", or
\* "keep" when it calls neither.  rebound and object are those of the call of
\* the DataHandler when the handler calls neither.
Response(ok, error, h, ss) ==
    [ok |-> ok, error |-> error, h |-> h, sessions |-> ss,
     body |-> IF ok THEN {"success"} ELSE {"success", "error"}, operation_log |-> {},
     saves |-> <<>>, set_data |-> "keep", rebound |-> FALSE, object |-> None]

\* if result['success']: visualizer.set_data(data_handler.data);
\* stats_calculator.set_data(data_handler.data)
SetData(resp) == IF resp.ok THEN [set_data |-> "data"] @@ resp ELSE resp

\* the response of a handler whose call of the DataHandler was result
Rebound(resp, result) ==
    [rebound |-> result.rebound, object |-> result.object] @@ resp

\* if session_id and session_id in sessions: save_session_data(session_id,
\* sessions[session_id], SESSION_FOLDER), in the branch of a success
Saving(resp, sid) ==
    IF resp.ok /\ sid # NoSid /\ sid \in DOMAIN resp.sessions
    THEN [saves |-> <<[session_id |-> sid, session_data |-> resp.sessions[sid]]>>] @@ resp
    ELSE resp

\* the response with the keys of the object a handler returns
Json(resp, keys, log) == [body |-> keys, operation_log |-> log] @@ resp

\* a successful response with the keys of its object
Success(resp, keys, log) == IF resp.ok THEN Json(resp, keys, log) ELSE resp

\* helpers.create_operation_log
create_operation_log == {"timestamp", "operation_type", "details", "user_id", "log_id"}

\* the response of a handler that reads or writes a relation, with sql, the
\* statements the request sent to SQLite, in order
WithSql(resp, statements) == resp @@ [sql |-> statements]

\* upload_file, POST /api/upload.  session_id is the id of the request, or
\* the one generate_unique_id() returned when the request has none.
upload_file(h, ss, file, session_id) ==
    LET h0 == [h EXCEPT !.data = None, !.original_data = None]
        resp ==
            IF ~file.present
            THEN Response(FALSE, "No file provided", h0, ss)
            ELSE IF file.size >= LARGE_FILE_THRESHOLD_BYTES /\ file.ext = "csv"
            THEN \* large CSV: imported to a SQLite relation of its own; a file
                 \* pandas cannot read raises, and the handler answers 500
                 IF file.body.kind = "frame"
                 THEN Saving(Json(Response(TRUE, "", h0,
                                    PutSession(ss, session_id, LargeSession(import_csv_to_sqlite(file)))),
                                  {"success", "session_id", "data_info", "preview", "validation",
                                   "operation_log", "large_mode", "pagination"},
                                  create_operation_log),
                             session_id)
                 ELSE Response(FALSE, "Upload failed", h0, ss)
            ELSE IF get_file_type(file) = "unknown"
            THEN Response(FALSE, "Unsupported file type", h0, ss)
            ELSE IF ~validate_file_size(file)
            THEN Response(FALSE, "File size", h0, ss)
            ELSE LET load_result == load_data(h0, file, get_file_type(file))
                     h1 == load_result.h
                 IN  IF ~load_result.ok
                     THEN Response(FALSE, load_result.error,
                                   [h1 EXCEPT !.data = None, !.original_data = None], ss)
                     ELSE IF ~validate_dataframe_structure(h1.data[1])
                     THEN \* return jsonify(validation_result), 400
                          Json(Response(FALSE, "Invalid DataFrame",
                                        [h1 EXCEPT !.data = None, !.original_data = None], ss),
                               {"valid", "errors", "warnings", "info"}, {})
                     ELSE Saving(Json(Response(TRUE, "",
                                        [h1 EXCEPT !.data = Some(sanitize_column_names(h1.data[1])),
                                                   !.aliased = FALSE],
                                        PutSession(ss, session_id, MemorySession(get_file_type(file)))),
                                      {"success", "session_id", "data_info", "preview", "validation",
                                       "operation_log"},
                                      create_operation_log),
                                 session_id)
    IN  \* set_data(None) at the start and before every return of a failure,
        \* set_data(data_handler.data) once the table is loaded
        [set_data |-> IF resp.h.data = None THEN "None" ELSE "data"] @@ resp

\* a statement sent to SQLite: the column names and the request values
\* written into its text, and the values bound to its ? parameters
Statement(names, params) == [names |-> names, literals |-> {}, params |-> params]

\* every column of a clean_text operation, known to the session or not
CleanTextColumns_all(columns, cols) == cols

\* for col in cols: if col not in columns: continue
CleanTextColumns(columns, cols) == SelectSeq(cols, LAMBDA col : col \in Range(columns))

\* trim, lower and upper of SQLite on a text
SqlText(function, t) ==
    CASE function = "trim" -> Strip(t, Whitespace)
      [] function = "upper" -> UpperText(t)
      [] OTHER -> LowerText(t)

\* UPDATE t SET col = function(CAST(col AS TEXT)): NULL stays NULL
UpdateColumn(rel, col, function) ==
    LET c == ColIdx(rel, col)
    IN  [rel EXCEPT !.rows = [i \in 1..Len(rel.rows) |->
            [rel.rows[i] EXCEPT ![c] = IF @ = NaN THEN NaN
                                       ELSE CellOf(SqlText(function, Text(@)))]]]

\* the UPDATEs of clean_text for one column: [failed, rel, sql]; a column the
\* table does not have makes the statement raise
CleanTextColumn(rel, col, op) ==
    LET trim == "trim_whitespace" \in op.text_operations
        norm == "normalize_case" \in op.text_operations
        sql == (IF trim THEN <<Statement({col}, <<>>)>> ELSE <<>>)
               \o (IF norm THEN <<Statement({col}, <<>>)>> ELSE <<>>)
    IN  IF ~HasCol(rel, col)
        THEN [failed |-> trim \/ norm, rel |-> rel,
              sql |-> IF sql = <<>> THEN sql ELSE <<sql[1]>>]
        ELSE LET r1 == IF trim THEN UpdateColumn(rel, col, "trim") ELSE rel
                 r2 == IF norm
                       THEN UpdateColumn(r1, col, IF op.case_type = "upper" THEN "upper" ELSE "lower")
                       ELSE r1
             IN  [failed |-> FALSE, rel |-> r2, sql |-> sql]

RECURSIVE CleanTextLoop(_, _, _, _)
CleanTextLoop(rel, cols, op, i) ==
    IF i > Len(cols) THEN [failed |-> FALSE, rel |-> rel, sql |-> <<>>]
    ELSE LET r == CleanTextColumn(rel, cols[i], op)
         IN  IF r.failed THEN r
             ELSE LET rest == CleanTextLoop(r.rel, cols, op, i + 1)
                  IN  [rest EXCEPT !.sql = r.sql \o @]

\* a large-mode clean that skips the operation types it does not know, as
\* DataHandler.clean_data does
LargeCleanStep_lenient(rel, columns, op) ==
    LET done(r) == [failed |-> FALSE, rel |-> r, sql |-> <<>>]
    IN  CASE op.type = "remove_duplicates" -> done(drop_duplicates(rel))
          [] op.type = "remove_empty" ->
                done(dropna_rows(rel, 1..Len(rel.columns), "all"))
          [] OTHER -> done(rel)

\* One operation of a large-mode clean on the relation rel of a session with
\* the stored column list columns: [failed, rel, sql], sql the statements sent
LargeCleanStep(rel, columns, op) ==
    LET done(r, sql) == [failed |-> FALSE, rel |-> r, sql |-> sql]
        fail == [failed |-> TRUE, rel |-> rel, sql |-> <<>>]
        all == Statement({}, <<>>)
    IN  CASE op.type = "remove_duplicates" ->
                done(drop_duplicates(rel), <<all, all, all, all, all>>)
          [] op.type = "remove_empty" ->
                IF op.target # "rows" THEN fail
                ELSE done(dropna_rows(rel, 1..Len(rel.columns), "all"),
                          <<all, Statement(Range(columns), <<>>), all>>)
          [] op.type = "clean_text" ->
                CleanTextLoop(rel, CleanTextColumns(columns, op.columns), op, 1)
          [] OTHER -> fail

RECURSIVE LargeCleanLoop(_, _, _, _)
LargeCleanLoop(rel, columns, operations, i) ==
    IF i > Len(operations) THEN [failed |-> FALSE, rel |-> rel, sql |-> <<>>]
    ELSE LET r == LargeCleanStep(rel, columns, operations[i])
         IN  IF r.failed THEN r
             ELSE LET rest == LargeCleanLoop(r.rel, columns, operations, i + 1)
                  IN  [rest EXCEPT !.sql = r.sql \o @]

\* clean_data, POST /api/clean
clean_route(h, ss, operations, sid) ==
    IF IsLargeSession(ss, sid)
    THEN LET lf == ss[sid].large_file[1]
             r == LargeCleanLoop(lf.relation, lf.columns, operations, 1)
             all == Statement({}, <<>>)
         IN  IF Len(lf.columns) = 0
             THEN WithSql(Response(FALSE, "Large file metadata is missing columns.", h, ss), <<>>)
             ELSE IF r.failed
             THEN WithSql(Response(FALSE, "Operation not supported in large mode", h,
                             [ss EXCEPT ![sid].large_file = Some([lf EXCEPT !.relation = r.rel])]),
                          r.sql)
             ELSE Saving(WithSql(Json(Response(TRUE, "", h,
                                  [ss EXCEPT ![sid].large_file =
                                                 Some([lf EXCEPT !.relation = r.rel,
                                                                 !.total_rows = Len(r.rel.rows)]),
                                             ![sid].marks = @ \cup {"last_cleaned"}]),
                               {"success", "data", "shape", "results", "operation_log", "note"},
                               create_operation_log),
                          r.sql \o <<all, all>>), sid)
    ELSE LET answer(clean_result) ==
                 Saving(WithSql(Success(SetData(Rebound(
                                     Response(clean_result.ok, clean_result.error, clean_result.h,
                                          IF clean_result.ok THEN Mark(ss, sid, "last_cleaned")
                                          ELSE ss),
                                     clean_result)),
                                 {"success", "data", "shape", "results", "operation_log"},
                                 create_operation_log),
                         <<>>), sid)
                 @@ [results |-> clean_result.results,
                     shape |-> IF clean_result.h.data = None THEN <<0, 0>>
                               ELSE <<Len(clean_result.h.data[1].rows),
                                      Len(clean_result.h.data[1].columns)>>]
         IN  answer(clean_data(save_state(h), operations))

\* filter_data, POST /api/filter
filter_route(h, ss, filters, sid) ==
    IF IsLargeSession(ss, sid)
    THEN Response(FALSE, "Filtering is not available in large file mode yet.", h, ss)
    ELSE LET filter_result == filter_data(h, filters)
         IN  Success(Response(filter_result.ok, filter_result.error, filter_result.h, ss),
                     {"success", "data", "shape"}, {})

\* transform_data, POST /api/transform
transform_route(h, ss, transformations, sid) ==
    LET transform_result == transform_data(h, transformations)
    IN  Saving(Success(SetData(Rebound(
                    Response(transform_result.ok, transform_result.error, transform_result.h,
                         IF transform_result.ok THEN Mark(ss, sid, "last_transformed") ELSE ss),
                    transform_result)),
                {"success", "data", "shape", "columns", "operation_log"},
                create_operation_log), sid)

\* UPDATE rel SET col = canonical WHERE CAST(col AS TEXT) IN (values); a NULL
\* is in no list
UpdateIn(rel, c, canonical, values) ==
    [rel EXCEPT !.rows =
        [i \in 1..Len(rel.rows) |->
            [rel.rows[i] EXCEPT ![c] = IF @ # NaN /\ @ \in values THEN canonical ELSE @]]]

\* the rows of the UPDATE whose value is another after it
RowCount_changed(rel, c, canonical, values) ==
    Cardinality({i \in 1..Len(rel.rows) :
                    rel.rows[i][c] # NaN /\ rel.rows[i][c] \in values /\ rel.rows[i][c] # canonical})

\* cur.rowcount of the UPDATE: the rows its WHERE selects
RowCount(rel, c, canonical, values) ==
    Cardinality({i \in 1..Len(rel.rows) : rel.rows[i][c] # NaN /\ rel.rows[i][c] \in values})

\* apply_cluster_merge, POST /api/cluster/apply; values is a set of texts
apply_cluster_merge(h, ss, column, canonical, values, sid) ==
    IF values = {}
    THEN WithSql(Response(FALSE, "column, canonical, and values[] are required", h, ss), <<>>)
    ELSE IF IsLargeSession(ss, sid)
    THEN LET lf == ss[sid].large_file[1]
         IN  IF column \notin Range(lf.columns)
             THEN WithSql(Response(FALSE, "Invalid column", h, ss), <<>>)
             ELSE LET c == ColIdx(lf.relation, column)
                      updated == UpdateIn(lf.relation, c, canonical, values)
                  IN  Saving(WithSql(Json(Response(TRUE, "", h,
                                 [ss EXCEPT ![sid].large_file =
                                                Some([lf EXCEPT !.relation = updated,
                                                                !.total_rows = Len(updated.rows)]),
                                            ![sid].marks = @ \cup {"last_cluster_merge"}]),
                                   {"success", "changed_rows", "shape", "data", "operation_log", "note"},
                                   create_operation_log),
                              <<Statement({column}, <<>>),
                                Statement({column}, <<canonical>> \o SeqOf(values)),
                                Statement({}, <<>>), Statement({}, <<>>)>>), sid)
                      @@ [changed_rows |-> Some(RowCount(lf.relation, c, canonical, values)),
                          shape |-> <<Len(updated.rows), Len(lf.columns)>>]
    ELSE IF h.data = None
    THEN WithSql(Response(FALSE, "No data loaded", h, ss), <<>>)
    ELSE IF ~HasCol(h.data[1], column)
    THEN WithSql(Response(FALSE, "Invalid column", h, ss), <<>>)
    ELSE LET h1 == save_state(h)
             df == replace_values(h1.data[1], ColIdx(h1.data[1], column), values, canonical)
         IN  WithSql(Json(SetData(Response(TRUE, "",
                                  [h1 EXCEPT !.data = Some(df),
                                             !.original_data = IF h1.aliased THEN Some(df) ELSE @],
                                  ss)),
                          {"success", "changed_rows", "data", "shape", "operation_log", "note"},
                          create_operation_log),
                     <<>>)

\* the characters of the values, by code point
CodePoints == <<" ", "-", "1", "V", "X", "a", "n", "v", "x", "y">>

CodePoint(c) == CHOOSE i \in 1..Len(CodePoints) : CodePoints[i] = c

\* s < t for the str values of a column
RECURSIVE ValueLess(_, _)
ValueLess(s, t) ==
    IF t = <<>> THEN FALSE
    ELSE IF s = <<>> THEN TRUE
    ELSE IF Head(s) = Head(t) THEN ValueLess(Tail(s), Tail(t))
    ELSE CodePoint(Head(s)) < CodePoint(Head(t))

\* the rows of the value counts: every distinct text of the cells with the
\* number of cells that hold it
ValueCounts(texts) ==
    {[value |-> v, count |-> Cardinality({i \in 1..Len(texts) : texts[i] = v})]
     : v \in Range(texts)}

\* members by value alone
MemberBefore_by_value(m, n) == ValueLess(m.value, n.value)

\* the key (-count, value) of the members: m sorts before n
MemberBefore(m, n) ==
    m.count > n.count \/ (m.count = n.count /\ ValueLess(m.value, n.value))

\* sorted(members, key = (-count, value)); the values of the members differ
RECURSIVE SortMembers(_)
SortMembers(members) ==
    IF members = {} THEN <<>>
    ELSE LET m == CHOOSE m \in members : \A n \in members \ {m} : MemberBefore(m, n)
         IN  <<m>> \o SortMembers(members \ {m})

\* the key (-size, canonical) of the clusters: c sorts before d
ClusterBefore(c, d) ==
    c.size > d.size \/ (c.size = d.size /\ ValueLess(c.canonical, d.canonical))

\* cluster_list.sort(key = (-size, canonical)); the canonicals differ
RECURSIVE SortClusters(_)
SortClusters(cluster_list) ==
    IF cluster_list = {} THEN <<>>
    ELSE LET c == CHOOSE c \in cluster_list : \A d \in cluster_list \ {c} : ClusterBefore(c, d)
         IN  <<c>> \o SortClusters(cluster_list \ {c})

\* cluster_list[:200]
MaxClusters == 200

\* a group of one member kept as a cluster
IsCluster_single(members) == Cardinality(members) >= 1

\* len(members) < 2: continue
IsCluster(members) == Cardinality(members) >= 2

\* the clusters of suggest_clusters over the rows of the value counts: the
\* rows are grouped by fingerprint, a value with the empty fingerprint is
\* skipped and a group of one value is no cluster
Clusters(rows) ==
    LET Key(r) == fingerprint(Some(r.value))
        keys == {Key(r) : r \in rows} \ {<<>>}
        Members(k) == {r \in rows : Key(r) = k}
        cluster_list ==
            {[key |-> k, canonical |-> SortMembers(Members(k))[1].value,
              members |-> SortMembers(Members(k)), size |-> Cardinality(Members(k))]
             : k \in {kk \in keys : IsCluster(Members(kk))}}
        sorted == SortClusters(cluster_list)
    IN  IF Len(sorted) <= MaxClusters THEN sorted ELSE SubSeq(sorted, 1, MaxClusters)

SuggestResponse(resp, clusters, statements) ==
    Success(resp, {"success", "column", "clusters", "unique_scanned"}, {})
    @@ [clusters |-> clusters, sql |-> statements]

\* suggest_clusters, GET /api/cluster/suggest; the tables of the model have
\* fewer distinct values than the smallest max_unique, 50
suggest_clusters(h, ss, column, sid) ==
    LET Fails(error) == SuggestResponse(Response(FALSE, error, h, ss), <<>>, <<>>)
    IN  IF column = <<>> THEN Fails("column is required")
        ELSE IF IsLargeSession(ss, sid)
        THEN LET lf == ss[sid].large_file[1]
                 c == ColIdx(lf.relation, column)
             IN  IF lf.engine # "sqlite" THEN Fails("Large mode engine not supported")
                 ELSE IF column \notin Range(lf.columns) THEN Fails("Invalid column")
                 ELSE SuggestResponse(Response(TRUE, "", h, ss),
                         \* a NULL value is skipped
                         Clusters(ValueCounts(
                             [i \in 1..Len(SelectSeq(lf.relation.rows, LAMBDA row : row[c] # NaN))
                                |-> Text(SelectSeq(lf.relation.rows, LAMBDA row : row[c] # NaN)[i][c])])),
                         <<Statement({column}, <<>>), Statement({column}, <<50>>)>>)
        ELSE IF h.data = None THEN Fails("No data loaded")
        ELSE IF ~HasCol(h.data[1], column) THEN Fails("Invalid column")
        ELSE LET df == h.data[1]
                 c == ColIdx(df, column)
             IN  SuggestResponse(Response(TRUE, "", h, ss),
                     \* astype(str): NaN is the value 'nan'
                     Clusters(ValueCounts([i \in 1..Len(df.rows) |-> Text(df.rows[i][c])])),
                     <<>>)

FacetResponse(resp, total_rows, null_rows, empty_rows, unique_count, statements) ==
    Success(resp, {"success", "column", "total_rows", "null_rows", "empty_rows",
                   "unique_count", "top_values", "large_mode"}, {})
    @@ [total_rows |-> total_rows, null_rows |-> null_rows, empty_rows |-> empty_rows,
        unique_count |-> unique_count, sql |-> statements]

\* the counts of facet_profile over the cells of a column
Facet(resp, cells, statements) ==
    LET present == {i \in 1..Len(cells) : cells[i] # NaN}
    IN  FacetResponse(resp, Len(cells), Len(cells) - Cardinality(present),
                      Cardinality({i \in present : Strip(Text(cells[i]), Whitespace) = <<>>}),
                      Cardinality({cells[i] : i \in present}), statements)

\* facet_profile, GET /api/facets/profile, with the default top_n
facet_profile(h, ss, column, sid) ==
    LET Fails(error) == FacetResponse(Response(FALSE, error, h, ss), 0, 0, 0, 0, <<>>)
    IN  IF column = <<>> THEN Fails("column is required")
        ELSE IF IsLargeSession(ss, sid)
        THEN LET lf == ss[sid].large_file[1]
                 c == ColIdx(lf.relation, column)
             IN  IF lf.engine # "sqlite" THEN Fails("Large mode engine not supported")
                 ELSE IF column \notin Range(lf.columns) THEN Fails("Invalid column")
                 ELSE Facet(Response(TRUE, "", h, ss),
                            [i \in 1..Len(lf.relation.rows) |-> lf.relation.rows[i][c]],
                            <<Statement({}, <<>>), Statement({column}, <<>>),
                              Statement({column}, <<>>), Statement({column}, <<>>),
                              Statement({column}, <<20>>)>>)
        ELSE IF h.data = None THEN Fails("No data loaded")
        ELSE IF ~HasCol(h.data[1], column) THEN Fails("Invalid column")
        ELSE LET df == h.data[1]
                 c == ColIdx(df, column)
             IN  Facet(Response(TRUE, "", h, ss), [i \in 1..Len(df.rows) |-> df.rows[i][c]], <<>>)

\* download_data, POST /api/download
download_data(h, ss, format_type, sid) ==
    LET \* send_file: a successful response is the file, it has no JSON object
        Attachment(resp) == Success(resp, {}, {})
    IN  IF format_type = "sql"
        THEN IF IsLargeSession(ss, sid) THEN Attachment(Response(TRUE, "", h, ss))
             ELSE IF h.data # None
             THEN LET export_result == export_data(h, "sql")
                  IN  Attachment(Response(export_result.ok, export_result.error, h, ss))
             ELSE Response(FALSE, "No data available to download.", h, ss)
        ELSE IF h.data = None
        THEN Response(FALSE, "No data available to download.", h, ss)
        ELSE LET export_result == export_data(h, format_type)
             IN  Attachment(Response(export_result.ok, export_result.error, h, ss))

\* CAST(x AS REAL) of a text: the number of a numeral, 0.0 of a text that
\* starts with no digit
Real(t) ==
    IF Len(t) = 1 /\ t[1] \in {ToString(i) : i \in 0..9}
    THEN CHOOSE i \in 0..9 : ToString(i) = t[1]
    ELSE 0

\* one filter clause of get_data_page on a cell; a comparison with NULL is
\* NULL, which selects no row
SqlMatches(cell, op, val) ==
    IF cell = NaN THEN FALSE
    ELSE CASE op = "equals" -> LowerText(Text(cell)) = LowerText(val)
           [] op = "not_equals" -> LowerText(Text(cell)) # LowerText(val)
           [] op = "contains" -> Contains(LowerText(Text(cell)), LowerText(val))
           [] op = "not_contains" -> ~Contains(LowerText(Text(cell)), LowerText(val))
           [] op = "greater_than" -> Real(Text(cell)) > Real(val)
           [] OTHER -> Real(Text(cell)) < Real(val)

\* the request carries a filter clause
HasFilter(q) ==
    q.filter_column # <<>> /\ q.filter_operator # "" /\ Strip(q.filter_value, Whitespace) # <<>>

\* the request carries a search clause
HasSearch(q) == Strip(q.search_term, Whitespace) # <<>>

\* the rows of the relation that satisfy where_sql, in the order of the
\* relation; without a clause there is no WHERE
Where(relation, q) ==
    LET fc == ColIdx(relation, q.filter_column)
        val == Strip(q.filter_value, Whitespace)
        term == Strip(q.search_term, Whitespace)
        filtered == IF HasFilter(q)
                    THEN SelectSeq(relation.rows,
                                   LAMBDA row : SqlMatches(row[fc], q.filter_operator, val))
                    ELSE relation.rows
    IN  IF HasSearch(q)
        THEN SelectSeq(filtered,
                       LAMBDA row : \E c \in 1..Len(relation.columns) :
                                       SqlMatches(row[c], "contains", term))
        ELSE filtered

\* ORDER BY "{sort_column}" ASC|DESC: NULL is the smallest value; rows of equal
\* key follow the index on the sort column, that is their rowid, and DESC reads
\* the same index backwards
OrderBy(relation, sort_column, sort_dir) ==
    LET c == ColIdx(relation, sort_column)
        asc == sort_values(relation, c, TRUE).rows
        nulls == SelectSeq(asc, LAMBDA row : row[c] = NaN)
        values == SelectSeq(asc, LAMBDA row : row[c] # NaN)
        ordered == nulls \o values
    IN  IF sort_dir = "desc"
        THEN [i \in 1..Len(ordered) |-> ordered[Len(ordered) + 1 - i]]
        ELSE ordered

\* SELECT * FROM t {where_sql} {order_sql}
Select(relation, q) ==
    LET matching == [relation EXCEPT !.rows = Where(relation, q)]
    IN  IF q.sort_column # <<>>
        THEN OrderBy(matching, q.sort_column, q.sort_dir)
        ELSE matching.rows

\* a row offset that skips the requested page as well
Offset_from_page(page, page_size) == page * page_size

\* offset = (page - 1) * page_size
Offset(page, page_size) == (page - 1) * page_size

\* LIMIT ? OFFSET ?
Limit(rows, page_size, offset) ==
    SubSeq(rows, offset + 1, IF offset + page_size < Len(rows) THEN offset + page_size ELSE Len(rows))

\* where_sql and where_params: the column names written into the WHERE clause
\* and the values bound to its ? parameters
WhereStatement(columns, q) ==
    LET val == Strip(q.filter_value, Whitespace)
        like == <<"%">> \o Strip(q.search_term, Whitespace) \o <<"%">>
    IN  Statement((IF HasFilter(q) THEN {q.filter_column} ELSE {})
                      \cup (IF HasSearch(q) THEN Range(columns) ELSE {}),
                  (IF ~HasFilter(q) THEN <<>>
                   ELSE IF q.filter_operator \in {"contains", "not_contains"}
                   THEN <<<<"%">> \o val \o <<"%">>>>
                   ELSE <<val>>)
                  \o (IF HasSearch(q) THEN [i \in 1..Len(columns) |-> like] ELSE <<>>))

\* the statements of a page request that passed its checks: the indexes, the
\* count and the page
PageStatements(columns, q, page_size, offset) ==
    LET where == WhereStatement(columns, q)
    IN  (IF q.filter_column # <<>> THEN <<Statement({q.filter_column}, <<>>)>> ELSE <<>>)
        \o (IF q.sort_column # <<>> THEN <<Statement({q.sort_column}, <<>>)>> ELSE <<>>)
        \o <<where,
              Statement(where.names \cup (IF q.sort_column # <<>> THEN {q.sort_column} ELSE {}),
                        where.params \o <<page_size, offset>>)>>

\* the response of get_data_page: 'data', 'page', 'page_size', 'total_rows' and
\* 'columns' of the JSON, and sql, the statements the request sent to SQLite
PageResponse(ok, error, h, ss, rows, page, page_size, total_rows, columns, sql) ==
    Success(Response(ok, error, h, ss),
            {"success", "data", "page", "page_size", "total_rows", "columns"}, {})
    @@ [data |-> rows, page |-> page, page_size |-> page_size, total_rows |-> total_rows,
        columns |-> columns, sql |-> sql]

PageFailure(error, h, ss) == PageResponse(FALSE, error, h, ss, <<>>, 0, 0, 0, <<>>, <<>>)

\* get_data_page, GET /api/data/page
get_data_page(h, ss, q) ==
    IF q.session_id = NoSid THEN PageFailure("session_id is required", h, ss)
    ELSE IF ~IsLargeSession(ss, q.session_id)
    THEN PageFailure("Session is not in large file mode", h, ss)
    ELSE IF ~q.numeric THEN PageFailure("Failed to get page", h, ss)
    ELSE LET lf == ss[q.session_id].large_file[1]
             columns == lf.columns
             Named(c) == \E i \in 1..Len(columns) : columns[i] = c
             sort_dir == IF q.sort_dir \in {"asc", "desc"} THEN q.sort_dir ELSE "asc"
             page == IF q.page < 1 THEN 1 ELSE q.page
             page_size == IF q.page_size > MaxPageSize THEN MaxPageSize
                          ELSE IF q.page_size < 1 THEN 1 ELSE q.page_size
             ordered == Select(lf.relation, [q EXCEPT !.sort_dir = sort_dir])
         IN  IF columns = <<>>
             THEN PageFailure("Large file metadata is missing columns", h, ss)
             ELSE IF q.sort_column # <<>> /\ ~Named(q.sort_column)
             THEN PageFailure("Invalid sort column", h, ss)
             ELSE IF q.filter_column # <<>> /\ ~Named(q.filter_column)
             THEN PageFailure("Invalid filter column", h, ss)
             ELSE IF lf.engine # "sqlite"
             THEN PageFailure("Large file engine not supported", h, ss)
             ELSE IF HasFilter(q) /\ q.filter_operator \notin KnownOperators
             THEN PageFailure("Invalid filter operator", h, ss)
             ELSE PageResponse(TRUE, "", h, ss,
                               Limit(ordered, page_size, Offset(page, page_size)),
                               page, page_size, Len(ordered), columns,
                               PageStatements(columns, q, page_size, Offset(page, page_size)))

\* undo_operation, POST /api/undo
undo_operation(h, ss) ==
    LET undo_result == undo(h)
    IN  Success(SetData(Response(undo_result.ok, undo_result.error, undo_result.h, ss)),
                {"success", "data", "shape", "message"}, {})

\* redo_operation, POST /api/redo
redo_operation(h, ss) ==
    LET redo_result == redo(h)
    IN  Success(SetData(Response(redo_result.ok, redo_result.error, redo_result.h, ss)),
                {"success", "data", "shape", "message"}, {})

\* preview_operations, POST /api/preview
preview_route(h, ss, operations, sample_size, source_data) ==
    LET preview_result == preview_operations(h, operations, sample_size, source_data)
    IN  Success(Response(preview_result.ok, preview_result.error, preview_result.h, ss),
                {"success", "original_data", "preview_data", "results", "sample_size", "note"},
                {})
        @@ [original_data |-> preview_result.original_data,
            preview_data |-> preview_result.preview_data,
            results |-> preview_result.results]

\* helpers.load_session_data(session_id, storage_path): the session file,
\* None without one
load_session_data(folder, session_id) ==
    IF session_id \in DOMAIN folder.files THEN Some(folder.files[session_id]) ELSE None

\* get_session, GET /api/session/<session_id>: the session file is read and
\* returned; the session map is not written
get_session(h, ss, folder, session_id) ==
    LET session_data == load_session_data(folder, session_id)
    IN  IF session_data # None
        THEN Json(Response(TRUE, "", h, ss), {"success", "session"}, {})
             @@ [session |-> session_data]
        ELSE Response(FALSE, "Session not found", h, ss) @@ [session |-> None]

\* reset_data, POST /api/reset
reset_data(h, ss, sid) ==
    LET reset_result == reset(h)
    IN  Saving(Success(SetData(Response(reset_result.ok, reset_result.error, reset_result.h,
                         IF reset_result.ok THEN Mark(ss, sid, "last_reset") ELSE ss)),
                {"success", "data", "shape", "message", "operation_log"},
                create_operation_log), sid)

-----------------------------------------------------------------------------
(* The requests of the model *)

File(ext, format, size, body) ==
    [present |-> TRUE, ext |-> ext, format |-> format, size |-> size, body |-> body]

\* a request without a 'file' part
NoFile == [present |-> FALSE, ext |-> "", format |-> "", size |-> 0,
           body |-> Unreadable("no_file")]

\* a CSV with a duplicated row
FrameA == [columns |-> <<Name("a")>>, rows |-> <<<<"x">>, <<"x">>>>]

\* records with a key that sanitize_column_names changes
FrameB == [columns |-> <<<<"1", " ">>>>, rows |-> <<<<"x">>, <<"v">>>>]

\* a header without rows
FrameEmpty == [columns |-> <<Name("a")>>, rows |-> <<>>]

SmallCsv == File("csv", "csv", 1, Frame(FrameA))

SmallJson == File("json", "json", 1, Frame(FrameB))

LargeCsv == File("csv", "csv", LARGE_FILE_THRESHOLD_BYTES, Frame(FrameA))

LargeJson == File("json", "json", LARGE_FILE_THRESHOLD_BYTES + 1, Frame(FrameB))

HugeExcel == File("xlsx", "excel", MAX_UPLOAD_MB + 1, Frame(FrameB))

BrokenCsv == File("csv", "csv", 1, Unreadable("parse_error"))

BrokenJson == File("json", "json", 1, Unreadable("json_error"))

EmptyCsv == File("csv", "csv", 1, Frame(FrameEmpty))

SqliteDb == File("db", "sqlite", 1, Frame(FrameB))

EmptySqliteDb == File("db", "sqlite", 1, Unreadable("no_tables"))

\* the files of upload requests
Files == {NoFile, SmallCsv, SmallJson, LargeCsv, LargeJson, HugeExcel,
          BrokenCsv, BrokenJson, EmptyCsv, SqliteDb}

\* the files and readers of direct load_data calls
Loads == {<<SmallCsv, "csv">>, <<BrokenJson, "json">>, <<SqliteDb, "sqlite">>,
          <<EmptySqliteDb, "sqlite">>, <<SmallCsv, "parquet">>}

Op(type) == [type |-> type, column |-> <<>>, columns |-> <<>>, how |-> "any",
             method |-> "mean", value |-> None, target |-> "rows",
             text_operations |-> {}, case_type |-> "lower"]

RemoveDuplicates == Op("remove_duplicates")

\* fill_missing on a column the table does not have: the access raises
FillMissingZ == [Op("fill_missing") EXCEPT !.column = Name("z"), !.method = "mode"]

\* the operations of clean requests; "normalize" is no operation type
CleanOps == {RemoveDuplicates, FillMissingZ, Op("normalize")}

Tr(type) == [type |-> type, old_name |-> <<>>, new_name |-> <<>>,
             columns |-> <<>>, ascending |-> TRUE]

RenameAC == [Tr("rename_column") EXCEPT !.old_name = Name("a"), !.new_name = Name("c")]

\* a sort by a column the table does not have: sort_values raises
SortZ == [Tr("sort") EXCEPT !.columns = <<Name("z")>>]

\* the transformations of transform requests
Transformations == {RenameAC, SortZ}

\* the lists of at most n elements of S
RECURSIVE Lists(_, _)
Lists(S, n) ==
    IF n = 0 THEN {<<>>}
    ELSE LET shorter == Lists(S, n - 1)
         IN  shorter \cup {Append(l, x) : l \in {m \in shorter : Len(m) = n - 1}, x \in S}

\* the cluster merges of merge requests: <<column, canonical, values>>
Merges == { <<Name("a"), "y", {"x"}>>, <<Name("z"), "y", {"x"}>> }

DownloadFormats == {"csv", "sql", "xml"}

Sids == SessionIds \cup {NoSid}

-----------------------------------------------------------------------------
(* The state machine *)

\* the threads of the server that take requests
Workers == {"w1", "w2"}

\* a worker between two requests
Idle == [pc |-> "idle", sid |-> NoSid, operations |-> <<>>, statements |-> <<>>,
         snapshot |-> None, input |-> None, tmp_table |-> None, uncommitted |-> None,
         ok |-> TRUE]

\* Visualizer.data or StatisticsCalculator.data: alias tells whether it
\* refers to the DataFrame data_handler.data refers to (or both are None),
\* data is the DataFrame it refers to
View(alias, d) == [alias |-> alias, data |-> d]

\* the view v after a call that leaves the table d and calls no set_data:
\* the DataFrame v refers to is changed with the table while the table is that
\* DataFrame, and stays as the call left it once self.data is assigned
\* another one
Held(v, d, rebound, object) ==
    LET w == IF v.alias THEN (IF rebound THEN View(FALSE, object) ELSE View(TRUE, d)) ELSE v
    IN  [w EXCEPT !.alias = @ \/ (w.data = None /\ d = None)]

\* set_data(data): self.data = data, in the Visualizer and in the
\* StatisticsCalculator, with the argument of the response resp
set_data(v, resp) ==
    CASE resp.set_data = "data" -> View(TRUE, resp.h.data)
      [] resp.set_data = "None" -> View(resp.h.data = None, None)
      [] OTHER -> Held(v, resp.h.data, resp.rebound, resp.object)

\* a request: the handler it goes to, and whether its session id is that of
\* a disk-backed session
Request(op, sid) == [op |-> op, disk |-> IsLargeSession(sessions, sid)]

\* the request r is served with response resp: the state the handler
\* leaves, the session file it writes and the answer it returns
Serve(r, resp) ==
    \E answered \in {resp} :
        /\ data' = answered.h.data
        /\ original_data' = answered.h.original_data
        /\ aliased' = answered.h.aliased
        /\ operation_history' = answered.h.operation_history
        /\ redo_stack' = answered.h.redo_stack
        /\ sessions' = answered.sessions
        /\ session_folder' = Written(session_folder, answered).folder
        /\ running' = running
        /\ collaborators' =
              [visualizer |-> set_data(collaborators.visualizer, answered),
               stats_calculator |-> set_data(collaborators.stats_calculator, answered)]
        /\ last' = [op |-> r.op, disk |-> r.disk, ok |-> Answer(session_folder, answered).ok]

\* DataHandler() and sessions = {}: nothing loaded, no history, no session
Init ==
    /\ data = None
    /\ original_data = None
    /\ aliased = FALSE
    /\ operation_history = <<>>
    /\ redo_stack = <<>>
    /\ sessions = [k \in {} |-> MemorySession("csv")]
    /\ session_folder = [writable |-> TRUE, files |-> [k \in {} |-> Metadata(MemorySession("csv"))]]
    /\ running = [w \in Workers |-> Idle]
    /\ collaborators = [visualizer |-> View(TRUE, None), stats_calculator |-> View(TRUE, None)]
    /\ last = [op |-> "start", disk |-> FALSE, ok |-> TRUE]

\* POST /api/upload; a request without a session id gets a fresh one
Upload(file, sid, session_id) ==
    /\ sid # NoSid => session_id = sid
    /\ sid = NoSid => session_id \notin DOMAIN sessions
    /\ Serve(Request("upload", sid), upload_file(Store, sessions, file, session_id))

\* POST /api/clean
Clean(operations, sid) ==
    Serve(Request("clean", sid), clean_route(Store, sessions, operations, sid))

\* POST /api/filter
Filter(filters, sid) ==
    Serve(Request("filter", sid), filter_route(Store, sessions, filters, sid))

\* POST /api/transform
Transform(transformations, sid) ==
    Serve(Request("transform", sid),
          transform_route(Store, sessions, transformations, sid))

\* POST /api/cluster/apply
ClusterMerge(m, sid) ==
    Serve(Request("merge", sid),
          apply_cluster_merge(Store, sessions, m[1], m[2], m[3], sid))

\* POST /api/download
Download(format_type, sid) ==
    Serve(Request(IF format_type = "sql" THEN "download_sql" ELSE "download", sid),
          download_data(Store, sessions, format_type, sid))

\* POST /api/undo
Undo == Serve(Request("undo", NoSid), undo_operation(Store, sessions))

\* POST /api/redo
Redo == Serve(Request("redo", NoSid), redo_operation(Store, sessions))

\* POST /api/reset
Reset(sid) ==
    Serve(Request("reset", sid), reset_data(Store, sessions, sid))

\* POST /api/preview
Preview(operations, sample_size, source_data) ==
    Serve(Request("preview", NoSid),
          preview_route(Store, sessions, operations, sample_size, source_data))

\* GET /api/session/<session_id>
GetSession(sid) ==
    Serve(Request("session", sid), get_session(Store, sessions, session_folder, sid))

\* the process stops and starts again: data_handler = DataHandler() and
\* sessions = {} at import; the session folder and the database files stay
Restart ==
    /\ data' = None
    /\ original_data' = None
    /\ aliased' = FALSE
    /\ operation_history' = <<>>
    /\ redo_stack' = <<>>
    /\ sessions' = [k \in {} |-> MemorySession("csv")]
    /\ session_folder' = session_folder
    /\ running' = [w \in Workers |-> Idle]
    /\ collaborators' = [visualizer |-> View(TRUE, None), stats_calculator |-> View(TRUE, None)]
    /\ last' = [op |-> "start", disk |-> FALSE, ok |-> TRUE]

\* a direct call of DataHandler.load_data
LoadData(file, file_type) ==
    /\ sessions' = sessions
    /\ session_folder' = session_folder
    /\ running' = running
    /\ LET r == load_data(Store, file, file_type)
       IN  /\ collaborators' =
                  [visualizer |-> Held(collaborators.visualizer, r.h.data, TRUE, data),
                   stats_calculator |-> Held(collaborators.stats_calculator, r.h.data, TRUE, data)]
           /\ data' = r.h.data
           /\ original_data' = r.h.original_data
           /\ aliased' = r.h.aliased
           /\ operation_history' = r.h.operation_history
           /\ redo_stack' = r.h.redo_stack
           /\ last' = [op |-> "load_data", disk |-> FALSE, ok |-> r.ok]

\* The Tabular Store behind the handlers that change it: one client whose
\* uploads carry the session id "s1" and whose other requests carry none.
\* The undo stack is kept within MaxDepth entries.
Next ==
    \/ \E file \in Files : Upload(file, "s1", "s1")
    \/ \E operations \in Lists(CleanOps, MaxOps) :
          Len(operation_history) < MaxDepth /\ Clean(operations, NoSid)
    \/ \E ts \in Lists(Transformations, MaxOps) : Transform(ts, NoSid)
    \/ \E m \in Merges : Len(operation_history) < MaxDepth /\ ClusterMerge(m, NoSid)
    \/ Undo
    \/ Redo
    \/ Reset(NoSid)

Spec == Init /\ [][Next]_vars

\* The requests of Spec that load, clean, undo, redo and reset, and direct
\* calls of load_data with every reader
NextStore ==
    \/ \E file \in Files : Upload(file, "s1", "s1")
    \/ \E operations \in Lists(CleanOps, MaxOps) :
          Len(operation_history) < MaxDepth /\ Clean(operations, NoSid)
    \/ Undo
    \/ Redo
    \/ Reset(NoSid)
    \/ \E l \in Loads : LoadData(l[1], l[2])

SpecStore == Init /\ [][NextStore]_vars

\* The Session Router: requests that carry any session id or none, on one
\* small CSV, one large CSV and one broken file
RouterFiles == {SmallCsv, LargeCsv, BrokenCsv}

NextRouter ==
    \/ \E file \in RouterFiles, sid \in Sids, id \in SessionIds : Upload(file, sid, id)
    \/ \E sid \in Sids : Filter(<<>>, sid)
    \/ \E sid \in Sids : Transform(<<RenameAC>>, sid)
    \/ \E f \in DownloadFormats, sid \in Sids : Download(f, sid)
    \/ \E sid \in Sids : Reset(sid)

SpecRouter == Init /\ [][NextRouter]_vars

\* The history at its cap: SmallCsv is loaded, and the requests are clean
\* (remove_duplicates), undo, redo, reset and an upload that fails
InitCap ==
    /\ data = Some(sanitize_column_names(FrameA))
    /\ original_data = Some(FrameA)
    /\ aliased = FALSE
    /\ operation_history = <<>>
    /\ redo_stack = <<>>
    /\ sessions = [k \in {"s1"} |-> MemorySession("csv")]
    /\ session_folder = [writable |-> TRUE, files |-> [k \in {"s1"} |-> Metadata(MemorySession("csv"))]]
    /\ running = [w \in Workers |-> Idle]
    /\ collaborators = [visualizer |-> View(TRUE, data), stats_calculator |-> View(TRUE, data)]
    /\ last = [op |-> "upload", disk |-> FALSE, ok |-> TRUE]

NextCap ==
    \/ Clean(<<RemoveDuplicates>>, NoSid)
    \/ Undo
    \/ Redo
    \/ Reset(NoSid)
    \/ Upload(BrokenCsv, "s1", "s1")

SpecCap == InitCap /\ [][NextCap]_vars

\* Uploads of every file of the model, with any session id or none, and the
\* requests that mark a session
NextUpload ==
    \/ \E file \in Files, sid \in Sids, id \in SessionIds : Upload(file, sid, id)
    \/ \E sid \in Sids : Transform(<<RenameAC>>, sid)
    \/ \E sid \in Sids : Reset(sid)

SpecUpload == Init /\ [][NextUpload]_vars

RemoveEmptyRows == Op("remove_empty")

RemoveEmptyColumns == [Op("remove_empty") EXCEPT !.target = "columns"]

\* the operations of clean requests sent to a disk-backed session
DiskCleanOps == {RemoveDuplicates, RemoveEmptyRows, RemoveEmptyColumns,
                 Op("clean_text"), FillMissingZ}

\* Clean requests with the id of either session, one of them disk-backed:
\* a small and a large CSV are uploaded under either id
NextDisk ==
    \/ \E file \in {SmallCsv, LargeCsv}, id \in SessionIds : Upload(file, id, id)
    \/ \E operations \in Lists(DiskCleanOps, MaxOps), sid \in Sids :
          /\ IsLargeSession(sessions, sid) \/ Len(operation_history) < MaxDepth
          /\ Clean(operations, sid)

SpecDisk == Init /\ [][NextDisk]_vars

\* a CSV with two columns, a missing cell and rows that differ
FrameF == [columns |-> <<Name("a"), Name("b")>>,
           rows |-> <<<<"x", "v">>, <<"y", NaN>>, <<"x", "nan">>, <<"v", "y">>>>]

FilterCsv == File("csv", "csv", 1, Frame(FrameF))

Flt(column, operator, value) ==
    [column |-> column, operator |-> operator, value |-> value]

\* the conditions of filter requests: a value in another case with a blank,
\* a pattern that occurs in the text of a missing cell, an order comparison,
\* a column the table does not have, an operator filter_data does not know
FilterConds == {Flt(Name("a"), "equals", "X "),
                Flt(Name("b"), "not_contains", "a"),
                Flt(Name("a"), "greater_than", "v"),
                Flt(Name("z"), "equals", "x"),
                Flt(Name("a"), "between", "x")}

\* Filter requests on tables with rows that differ, changed by cluster
\* merges and restored by undo
NextFilter ==
    \/ \E file \in {FilterCsv, SmallCsv, LargeCsv}, id \in SessionIds :
          Upload(file, id, id)
    \/ \E filters \in Lists(FilterConds, MaxOps), sid \in Sids : Filter(filters, sid)
    \/ \E m \in Merges : Len(operation_history) < MaxDepth /\ ClusterMerge(m, NoSid)
    \/ Undo

SpecFilter == Init /\ [][NextFilter]_vars

-----------------------------------------------------------------------------
(* Paging: the disk-backed relations are read page by page *)

\* a relation of PageRows distinct rows
FrameP == [columns |-> <<Name("n"), Name("a")>>,
           rows |-> [i \in 1..PageRows |-> <<ToString(i), IF i % 2 = 1 THEN "x" ELSE "y">>]]

PagedCsv == File("csv", "csv", LARGE_FILE_THRESHOLD_BYTES + PageRows, Frame(FrameP))

FilterLargeCsv == File("csv", "csv", LARGE_FILE_THRESHOLD_BYTES, Frame(FrameF))

\* the sort, filter and search parameters of a page request
Clause(sort_column, sort_dir, filter_column, filter_operator, filter_value, search_term) ==
    [sort_column |-> sort_column, sort_dir |-> sort_dir, filter_column |-> filter_column,
     filter_operator |-> filter_operator, filter_value |-> filter_value,
     search_term |-> search_term]

NoClause == Clause(<<>>, "", <<>>, "", <<>>, <<>>)

\* clauses that name columns of the session only
ValidClauses ==
    { NoClause,
      Clause(<<>>, "", Name("a"), "equals", <<"X", " ">>, <<>>),
      Clause(<<>>, "", <<>>, "", <<>>, <<"v">>),
      Clause(Name("b"), "DOWN", <<>>, "", <<>>, <<>>),
      Clause(Name("b"), "desc", Name("a"), "not_equals", <<"y">>, <<>>) }

\* clauses with a column no session has, or an operator the handler does not know
InvalidClauses ==
    { Clause(Name("z"), "asc", <<>>, "", <<>>, <<>>),
      Clause(<<>>, "", Name("z"), "equals", <<"x">>, <<>>),
      Clause(<<>>, "", Name("a"), "between", <<"x">>, <<>>) }

PageClauses == ValidClauses \cup InvalidClauses

PageNumbers == {0, 1, 2, 3, PageRows}

PageSizes == {0, 250, MaxPageSize, MaxPageSize + 1}

\* the query string of a page request; numeric is false when page or
\* page_size is no integer literal
PageQuery(sid, page, page_size, clause, numeric) ==
    [session_id |-> sid, page |-> page, page_size |-> page_size, numeric |-> numeric,
     sort_column |-> clause.sort_column, sort_dir |-> clause.sort_dir,
     filter_column |-> clause.filter_column, filter_operator |-> clause.filter_operator,
     filter_value |-> clause.filter_value, search_term |-> clause.search_term]

\* GET /api/data/page
Page(q) == Serve(Request("page", q.session_id), get_data_page(Store, sessions, q))

NextPage ==
    \/ \E file \in {PagedCsv, FilterLargeCsv, SmallCsv}, id \in SessionIds :
          Upload(file, id, id)
    \/ \E sid \in Sids, page \in {0, 3}, clause \in PageClauses, numeric \in BOOLEAN :
          Page(PageQuery(sid, page, MaxPageSize + 1, clause, numeric))
    \/ \E format_type \in DownloadFormats, sid \in Sids : Download(format_type, sid)

SpecPage == Init /\ [][NextPage]_vars

-----------------------------------------------------------------------------
(* Fingerprints: _fingerprint is applied to one value after the other; last *)
(* records the call                                                         *)

\* a letter, a capital, a digit, whitespace and punctuation
TextChars == {"x", "X", "1", " ", "-"}

Texts == UNION {[1..n -> TextChars] : n \in 0..MaxText}

\* the values of the calls: None and the texts
Values == {None} \cup {Some(t) : t \in Texts}

\* _fingerprint(value)
Fingerprint(value) ==
    /\ last' = [op |-> "fingerprint", value |-> value, key |-> fingerprint(value)]
    /\ UNCHANGED <<data, original_data, aliased, operation_history, redo_stack, sessions,
                   session_folder, running, collaborators>>

NextFingerprint == \E value \in Values : Fingerprint(value)

SpecFingerprint == Init /\ [][NextFingerprint]_vars

-----------------------------------------------------------------------------
(* SQL: the requests that make app.py write statements for a relation *)

\* a relation with a value to trim and to fold, and a NULL
FrameT == [columns |-> <<Name("a"), Name("b")>>,
           rows |-> <<<<"X ", "v">>, <<"x", NaN>>>>]

TextLargeCsv == File("csv", "csv", LARGE_FILE_THRESHOLD_BYTES, Frame(FrameT))

\* clean_text that names a column of the session and one it does not have
TrimLowerAZ == [Op("clean_text") EXCEPT !.columns = <<Name("a"), Name("z")>>,
                                        !.text_operations = {"trim_whitespace", "normalize_case"}]

UpperA == [Op("clean_text") EXCEPT !.columns = <<Name("a")>>,
                                   !.text_operations = {"normalize_case"},
                                   !.case_type = "upper"]

SqlCleanOps == {TrimLowerAZ, UpperA, RemoveEmptyRows, RemoveDuplicates}

\* the columns of suggest and facet requests: one the tables have, one they
\* do not have, and none
RequestColumns == {Name("a"), Name("z"), <<>>}

\* GET /api/cluster/suggest
Suggest(column, sid) ==
    Serve(Request("suggest", sid), suggest_clusters(Store, sessions, column, sid))

\* GET /api/facets/profile
FacetProfile(column, sid) ==
    Serve(Request("facet", sid), facet_profile(Store, sessions, column, sid))

NextSql ==
    \/ \E file \in {TextLargeCsv, SmallCsv}, id \in SessionIds : Upload(file, id, id)
    \/ \E operations \in Lists(SqlCleanOps, MaxOps), sid \in SessionIds :
          IsLargeSession(sessions, sid) /\ Clean(operations, sid)
    \/ \E sid \in Sids, clause \in PageClauses : Page(PageQuery(sid, 1, 2, clause, TRUE))
    \/ \E m \in Merges, sid \in SessionIds :
          IsLargeSession(sessions, sid) /\ ClusterMerge(m, sid)
    \/ \E column \in RequestColumns, sid \in Sids : Suggest(column, sid)
    \/ \E column \in RequestColumns, sid \in Sids : FacetProfile(column, sid)

SpecSql == Init /\ [][NextSql]_vars

-----------------------------------------------------------------------------
(* Clusters: the requests of cluster suggest and cluster merge *)

\* the number of rows of the enumerated relations
MaxRows == 3

\* values that share a fingerprint, "x" or "v"
ClusterCells == {"X", "x", "V", "v"}

\* a column with two groups of different sizes, values with different
\* counts, values of the empty fingerprint and a missing value
FrameC == [columns |-> <<Name("a")>>,
           rows |-> <<<<"X">>, <<"x">>, <<"x">>, <<"x ">>, <<"v">>, <<"V">>,
                      <<"-">>, <<"--">>, <<NaN>>>>]

\* a column of values that all differ and share no fingerprint
FrameU == [columns |-> <<Name("a")>>, rows |-> <<<<"x">>, <<"v">>, <<"y">>>>]

\* a column of values that all differ, two of them with one fingerprint
FrameD == [columns |-> <<Name("a")>>, rows |-> <<<<"X">>, <<"x">>, <<"v">>>>]

\* every column of MaxRows values, as a CSV of the large mode
ClusterLargeFiles ==
    {File("csv", "csv", LARGE_FILE_THRESHOLD_BYTES,
          Frame([columns |-> <<Name("a")>>, rows |-> [i \in 1..MaxRows |-> <<cells[i]>>]]))
     : cells \in [1..MaxRows -> ClusterCells]}
    \cup {File("csv", "csv", LARGE_FILE_THRESHOLD_BYTES, Frame(df)) : df \in {FrameC, FrameU, FrameD}}

ClusterSmallFiles == {File("csv", "csv", 1, Frame(df)) : df \in {FrameC, FrameU, FrameD}}

\* merges into a value of the list, into another value, and of a column
\* the tables do not have
ClusterMerges == { <<Name("a"), "x", {"X", "x"}>>, <<Name("a"), "x", {"X", "V"}>>,
                   <<Name("z"), "x", {"X"}>> }

NextCluster ==
    \/ \E file \in ClusterLargeFiles \cup ClusterSmallFiles : Upload(file, "s1", "s1")
    \/ \E m \in ClusterMerges, sid \in {"s1"} :
          IsLargeSession(sessions, sid) /\ ClusterMerge(m, sid)
    \/ \E column \in RequestColumns, sid \in {"s1", NoSid} : Suggest(column, sid)

SpecCluster == Init /\ [][NextCluster]_vars

-----------------------------------------------------------------------------
(* Cleaning in memory: remove_duplicates and remove_outliers *)

\* three columns and five rows, the third row a duplicate of the first
FrameR == [columns |-> <<Name("a"), Name("b"), Name("c")>>,
           rows |-> <<<<"x", "v", "1">>, <<"x", "v", "2">>, <<"x", "v", "1">>,
                      <<"y", NaN, "1">>, <<"x", NaN, "1">>>>]

\* the column 1, 2, 3, 4, 5, 100
FrameN == [columns |-> <<Name("n")>>,
           rows |-> <<<<"1">>, <<"2">>, <<"3">>, <<"4">>, <<"5">>, <<"100">>>>]

\* a column with equal quartiles, a far value and a missing value
FrameQ == [columns |-> <<Name("n")>>,
           rows |-> <<<<"100">>, <<"1">>, <<"1">>, <<NaN>>, <<"1">>, <<"1">>>>]

\* every numeric column of MaxRows cells
NumericFrames ==
    {[columns |-> <<Name("n")>>, rows |-> [i \in 1..MaxRows |-> <<cells[i]>>]]
     : cells \in [1..MaxRows -> {"1", "5", "100", NaN}]}

MemoryCleanFiles ==
    {File("csv", "csv", 1, Frame(df)) : df \in NumericFrames \cup {FrameR, FrameN, FrameQ}}

\* remove_outliers on the numeric column
OutliersN == [Op("remove_outliers") EXCEPT !.column = Name("n"), !.method = "iqr"]

\* remove_outliers by a method the handler does not know
OutliersZscore == [OutliersN EXCEPT !.method = "zscore"]

\* remove_outliers on a column of texts
OutliersA == [OutliersN EXCEPT !.column = Name("a")]

MemoryCleanRequests ==
    {<<op>> : op \in {RemoveDuplicates, OutliersN, OutliersZscore, OutliersA}}
    \cup {<<RemoveDuplicates, OutliersN>>}

\* a client that uploads tables and sends one cleaning request for the last
NextMemoryClean ==
    \/ \E file \in MemoryCleanFiles :
          operation_history = <<>> /\ Upload(file, "s1", "s1")
    \/ \E operations \in MemoryCleanRequests :
          operation_history = <<>> /\ Clean(operations, NoSid)

SpecMemoryClean == Init /\ [][NextMemoryClean]_vars

-----------------------------------------------------------------------------
(* The session folder: requests with the id of a session while the folder *)
(* can and cannot be written                                              *)

\* the folder stops taking writes: a full disk, a directory made read-only
FolderFails ==
    /\ session_folder.writable
    /\ session_folder' = [session_folder EXCEPT !.writable = FALSE]
    /\ UNCHANGED <<data, original_data, aliased, operation_history, redo_stack, sessions, running,
                   collaborators, last>>

\* the folder takes writes again
FolderRecovers ==
    /\ ~session_folder.writable
    /\ session_folder' = [session_folder EXCEPT !.writable = TRUE]
    /\ UNCHANGED <<data, original_data, aliased, operation_history, redo_stack, sessions, running,
                   collaborators, last>>

FolderFiles == {SmallCsv, LargeCsv}

FolderCleans == {<<RemoveDuplicates>>, <<FillMissingZ>>}

FolderSids == {"s1", NoSid}

NextFolder ==
    \/ \E file \in FolderFiles : Upload(file, "s1", "s1")
    \/ \E operations \in FolderCleans, sid \in FolderSids :
          Len(operation_history) < MaxDepth /\ Clean(operations, sid)
    \/ \E sid \in FolderSids : Transform(<<RenameAC>>, sid)
    \/ \E m \in Merges, sid \in FolderSids :
          Len(operation_history) < MaxDepth /\ ClusterMerge(m, sid)
    \/ \E sid \in FolderSids : Reset(sid)
    \/ FolderFails
    \/ FolderRecovers

SpecFolder == Init /\ [][NextFolder]_vars

-----------------------------------------------------------------------------
(* Threads: app.run serves every request in a thread of its own, and the   *)
(* handlers take no lock.  The in-memory branch of clean_data is three     *)
(* calls on the global data_handler, and the threads switch between them.  *)

\* data_handler.save_state(operation_desc), by worker w for a new request
CleanSaveState(w, operations) ==
    /\ running[w].pc = "idle"
    /\ LET h == save_state(Store)
       IN  /\ operation_history' = h.operation_history
           /\ redo_stack' = h.redo_stack
    /\ running' = [running EXCEPT ![w] = [Idle EXCEPT !.pc = "saved",
                                                      !.operations = operations,
                                                      !.snapshot = data]]
    /\ UNCHANGED <<data, original_data, aliased, sessions, session_folder, collaborators, last>>

\* clean_result = data_handler.clean_data(operations), by worker w
CleanData(w) ==
    /\ running[w].pc = "saved"
    /\ LET clean_result == clean_data(Store, running[w].operations)
       IN  /\ data' = clean_result.h.data
           /\ original_data' = clean_result.h.original_data
           /\ aliased' = clean_result.h.aliased
           /\ running' = [running EXCEPT ![w].pc = "cleaned", ![w].input = data,
                                         ![w].ok = clean_result.ok]
           /\ collaborators' =
                  [visualizer |-> Held(collaborators.visualizer, clean_result.h.data,
                                       clean_result.rebound, clean_result.object),
                   stats_calculator |-> Held(collaborators.stats_calculator, clean_result.h.data,
                                             clean_result.rebound, clean_result.object)]
    /\ UNCHANGED <<operation_history, redo_stack, sessions, session_folder, last>>

\* visualizer.set_data, stats_calculator.set_data and return jsonify(clean_result)
CleanRespond(w) ==
    /\ running[w].pc = "cleaned"
    /\ running' = [running EXCEPT ![w] = Idle]
    /\ collaborators' = IF running[w].ok
                        THEN [visualizer |-> View(TRUE, data), stats_calculator |-> View(TRUE, data)]
                        ELSE collaborators
    /\ last' = [op |-> "clean", disk |-> FALSE, ok |-> running[w].ok]
    /\ UNCHANGED <<data, original_data, aliased, operation_history, redo_stack, sessions, session_folder>>

\* a table whose cleaning changes it
FrameS == [columns |-> <<Name("a"), Name("b")>>,
           rows |-> <<<<"x", NaN>>, <<"x", NaN>>, <<NaN, NaN>>, <<"y", "v">>>>]

ThreadFiles == {File("csv", "csv", 1, Frame(df)) : df \in {FrameA, FrameS}}

ThreadCleans == {<<RemoveDuplicates>>, <<RemoveEmptyRows>>, <<RemoveEmptyColumns>>,
                 <<[Op("remove_missing") EXCEPT !.how = "any"]>>}

\* two clients of one table; the undo stack is kept within MaxDepth + 1 entries
NextThreads ==
    \/ \E file \in ThreadFiles :
          (\A w \in Workers : running[w].pc = "idle") /\ Upload(file, "s1", "s1")
    \/ \E w \in Workers, operations \in ThreadCleans :
          Len(operation_history) <= MaxDepth /\ CleanSaveState(w, operations)
    \/ \E w \in Workers : CleanData(w)
    \/ \E w \in Workers : CleanRespond(w)
    \/ (\A w \in Workers : running[w].pc = "idle") /\ Reset(NoSid)

SpecThreads == Init /\ [][NextThreads]_vars

-----------------------------------------------------------------------------
(* Statements: the disk-backed branch of clean_data, one statement of its  *)
(* connection at a time.  sqlite3 opens a transaction before an UPDATE or  *)
(* a DELETE and closes it at conn.commit(); CREATE TABLE, DROP TABLE and   *)
(* ALTER TABLE run outside a transaction and are committed as they finish. *)
(* A table of SQLite has at least one column: a session whose relation has *)
(* no column has no table of its name.                                     *)

Stmt(kind) == [kind |-> kind, col |-> <<>>, function |-> ""]

\* the UPDATEs of clean_text, column by column
RECURSIVE TextStatements(_, _, _)
TextStatements(cols, op, i) ==
    IF i > Len(cols) THEN <<>>
    ELSE (IF "trim_whitespace" \in op.text_operations
          THEN <<[kind |-> "update", col |-> cols[i], function |-> "trim"]>> ELSE <<>>)
         \o (IF "normalize_case" \in op.text_operations
             THEN <<[kind |-> "update", col |-> cols[i],
                     function |-> IF op.case_type = "upper" THEN "upper" ELSE "lower"]>>
             ELSE <<>>)
         \o TextStatements(cols, op, i + 1)

\* the statements of one operation that write, and its conn.commit(); an
\* operation the branch does not support returns the 400
OperationStatements(columns, op) ==
    CASE op.type = "remove_duplicates" ->
            <<Stmt("create"), Stmt("drop"), Stmt("rename"), Stmt("commit")>>
      [] op.type = "remove_empty" ->
            IF op.target # "rows" THEN <<Stmt("return")>>
            ELSE <<Stmt("delete"), Stmt("commit")>>
      [] op.type = "clean_text" ->
            TextStatements(CleanTextColumns(columns, op.columns), op, 1) \o <<Stmt("commit")>>
      [] OTHER -> <<Stmt("return")>>

\* the statements of a request, up to the response
RECURSIVE RequestStatements(_, _, _)
RequestStatements(columns, operations, i) ==
    IF i > Len(operations) THEN <<Stmt("finish")>>
    ELSE LET s == OperationStatements(columns, operations[i])
         IN  IF s = <<Stmt("return")>> THEN s
             ELSE s \o RequestStatements(columns, operations, i + 1)

\* sessions with the relation of session sid replaced
WithRelation(ss, sid, rel) ==
    [ss EXCEPT ![sid].large_file = Some([@[1] EXCEPT !.relation = rel])]

\* worker w takes a clean request for a disk-backed session and connects
DiskCleanBegin(w, operations, sid) ==
    /\ running[w].pc = "idle"
    /\ IsLargeSession(sessions, sid)
    /\ Len(sessions[sid].large_file[1].columns) > 0
    /\ running' = [running EXCEPT ![w] =
                      [Idle EXCEPT !.pc = "disk", !.sid = sid, !.operations = operations,
                                   !.snapshot = Some(sessions[sid].large_file[1].relation),
                                   !.statements =
                                       RequestStatements(sessions[sid].large_file[1].columns,
                                                         operations, 1)]]
    /\ UNCHANGED <<data, original_data, aliased, operation_history, redo_stack, sessions,
                   session_folder, collaborators, last>>

\* the next statement of worker w
DiskCleanStatement(w) ==
    /\ running[w].pc = "disk"
    /\ LET r == running[w]
           st == Head(r.statements)
           committed == sessions[r.sid].large_file[1].relation
           cur == IF r.uncommitted # None THEN r.uncommitted[1] ELSE committed
           next == [r EXCEPT !.statements = Tail(@)]
           Goes(worker, ss) == /\ running' = [running EXCEPT ![w] = worker]
                               /\ sessions' = ss
                               /\ UNCHANGED <<session_folder, last>>
           Returns(ok, ss) == /\ running' = [running EXCEPT ![w] = Idle]
                              /\ sessions' = ss
                              /\ last' = [op |-> "clean", disk |-> TRUE, ok |-> ok]
       IN  IF cur.columns = <<>> /\ st.kind \in {"create", "drop", "delete", "update", "finish"}
           THEN \* no such table: the except clause answers, the connection closes
                Returns(FALSE, sessions) /\ UNCHANGED session_folder
           ELSE CASE st.kind = "create" ->
                        Goes([next EXCEPT !.tmp_table = Some(drop_duplicates(cur))], sessions)
                  [] st.kind = "drop" ->
                        Goes(next, WithRelation(sessions, r.sid, NoFrame))
                  [] st.kind = "rename" ->
                        Goes([next EXCEPT !.tmp_table = None],
                             WithRelation(sessions, r.sid, r.tmp_table[1]))
                  [] st.kind = "delete" ->
                        Goes([next EXCEPT !.uncommitted =
                                 Some(dropna_rows(cur, 1..Len(cur.columns), "all"))], sessions)
                  [] st.kind = "update" ->
                        Goes([next EXCEPT !.uncommitted =
                                 Some(UpdateColumn(cur, st.col, st.function))], sessions)
                  [] st.kind = "commit" ->
                        Goes([next EXCEPT !.uncommitted = None],
                             WithRelation(sessions, r.sid, cur))
                  [] st.kind = "return" ->
                        Returns(FALSE, sessions) /\ UNCHANGED session_folder
                  [] OTHER ->
                        LET ss == [sessions EXCEPT
                                      ![r.sid].large_file =
                                          Some([@[1] EXCEPT !.total_rows = Len(committed.rows)]),
                                      ![r.sid].marks = @ \cup {"last_cleaned"}]
                        IN  /\ Returns(TRUE, ss)
                            /\ session_folder' =
                                   save_session_data(session_folder, r.sid, ss[r.sid]).folder
    /\ UNCHANGED <<data, original_data, aliased, operation_history, redo_stack, collaborators>>

\* the request of worker w is cancelled, or its thread dies: the connection
\* closes and its open transaction is rolled back
Crash(w) ==
    /\ running[w].pc = "disk"
    /\ running' = [running EXCEPT ![w] = Idle]
    /\ last' = [op |-> "clean", disk |-> TRUE, ok |-> FALSE]
    /\ UNCHANGED <<data, original_data, aliased, operation_history, redo_stack, sessions, session_folder,
                   collaborators>>

\* one client of one disk-backed session
NextStatements ==
    \/ \E file \in {LargeCsv, TextLargeCsv} :
          running["w1"].pc = "idle" /\ Upload(file, "s1", "s1")
    \/ \E operations \in Lists(SqlCleanOps \cup {RemoveEmptyColumns}, MaxOps) :
          DiskCleanBegin("w1", operations, "s1")
    \/ DiskCleanStatement("w1")
    \/ Crash("w1")

SpecStatements == Init /\ [][NextStatements]_vars

-----------------------------------------------------------------------------
(* Operation types: clean and transform requests that carry an operation   *)
(* type the code has no branch for                                         *)

\* the operation types DataHandler.clean_data has a branch for
CleanTypes == {"remove_duplicates", "fill_missing", "remove_missing", "convert_type",
               "remove_outliers", "clean_text", "remove_empty"}

\* the transformation types DataHandler.transform_data has a branch for
TransformTypes == {"create_column", "rename_column", "drop_column", "sort",
                   "group_aggregate"}

TypeFiles == {SmallCsv, SmallJson, LargeCsv}

TypeCleans == {RemoveDuplicates, Op("normalize")}

TypeTransformations == {RenameAC, Tr("pivot")}

NextTypes ==
    \/ \E file \in TypeFiles : Upload(file, "s1", "s1")
    \/ \E operations \in Lists(TypeCleans, MaxOps), sid \in FolderSids :
          Len(operation_history) < MaxDepth /\ Clean(operations, sid)
    \/ \E ts \in Lists(TypeTransformations, MaxOps), sid \in FolderSids : Transform(ts, sid)

SpecTypes == Init /\ [][NextTypes]_vars

-----------------------------------------------------------------------------
(* Previews: preview requests between the requests that change the table   *)

PreviewFiles == {File("csv", "csv", 1, Frame(df)) : df \in {FrameS, FrameT}}

FillMissingB == [Op("fill_missing") EXCEPT !.column = Name("b"), !.method = "mode"]

PreviewOps == {RemoveDuplicates, FillMissingB, FillMissingZ, TrimLowerAZ}

\* sample sizes: none of the rows, fewer rows than a table has, the default
\* of the request, and a negative one
SampleSizes == {0, 1, 100, -1}

\* the rows a request sends: none, an empty list, and rows of a filter
SourceRows == {None, Some(FrameEmpty), Some(FrameF)}

NextPreview ==
    \/ \E file \in PreviewFiles : Upload(file, "s1", "s1")
    \/ \E operations \in Lists(PreviewOps, 1) :
          operation_history = <<>> /\ Clean(operations, NoSid)
    \/ Undo
    \/ Redo
    \/ Reset(NoSid)
    \/ \E operations \in Lists(PreviewOps, MaxOps), sample_size \in SampleSizes,
          source_data \in SourceRows : Preview(operations, sample_size, source_data)

SpecPreview == Init /\ [][NextPreview]_vars


-----------------------------------------------------------------------------
(* Merges in memory: cluster merges on the table of the Tabular Store      *)

MergeFiles == {File("csv", "csv", 1, Frame(df)) : df \in {FrameC, FrameU, FrameD, FrameS, FrameT}}

NextMerge ==
    \/ \E file \in MergeFiles : Upload(file, "s1", "s1")
    \/ \E m \in ClusterMerges, sid \in FolderSids :
          operation_history = <<>> /\ ClusterMerge(m, sid)
    \/ Undo

SpecMerge == Init /\ [][NextMerge]_vars

-----------------------------------------------------------------------------
(* Restarts: the process is started again between requests.  Disk-backed   *)
(* sessions have the id "s1", in-memory sessions the id "s2".              *)

RestartCleans == {<<RemoveDuplicates>>, <<RemoveEmptyRows>>}

NextRestart ==
    \/ \E file \in {LargeCsv, TextLargeCsv} : Upload(file, "s1", "s1")
    \/ \E file \in {SmallCsv, FilterCsv} : Upload(file, "s2", "s2")
    \/ \E operations \in RestartCleans, sid \in SessionIds :
          Len(operation_history) < MaxDepth /\ Clean(operations, sid)
    \/ \E m \in Merges, sid \in SessionIds :
          Len(operation_history) < MaxDepth /\ ClusterMerge(m, sid)
    \/ \E sid \in SessionIds : GetSession(sid)
    \/ Restart

SpecRestart == Init /\ [][NextRestart]_vars

-----------------------------------------------------------------------------
(* Row counts: clean and merge requests on the relation of a disk-backed   *)
(* session, whose metadata holds total_rows                                *)

RowFiles == {LargeCsv, TextLargeCsv, FilterLargeCsv,
             File("csv", "csv", LARGE_FILE_THRESHOLD_BYTES, Frame(FrameS))}

RowCleanOps == {RemoveDuplicates, RemoveEmptyRows, RemoveEmptyColumns}

NextRows ==
    \/ \E file \in RowFiles : Upload(file, "s1", "s1")
    \/ \E operations \in Lists(RowCleanOps, MaxOps) : Clean(operations, "s1")
    \/ \E m \in Merges \cup ClusterMerges : ClusterMerge(m, "s1")

SpecRows == Init /\ [][NextRows]_vars

-----------------------------------------------------------------------------
(* Conversions: convert_type on columns of the file, on a column whose     *)
(* name the upload sanitized and on a column a transform renamed           *)

\* a column name that sanitize_column_names changes, and a missing value
FrameK == [columns |-> <<<<"1", " ">>, Name("b")>>,
           rows |-> <<<<"x", NaN>>, <<"x", "v">>>>]

ConvertFiles == {File("csv", "csv", 1, Frame(df)) : df \in {FrameS, FrameK, FrameN}}

Convert(column, target_type) ==
    [target_type |-> target_type] @@ [Op("convert_type") EXCEPT !.column = column]

ConvertOps == {Convert(Name("a"), "str"), Convert(Name("b"), "str"),
               Convert(Name("c"), "str"), Convert(<<"c", "o", "l", "_", "1">>, "str"),
               Convert(Name("b"), "int"), Convert(Name("z"), "str")}

ConvertRequests == Lists(ConvertOps \cup {RemoveDuplicates}, MaxOps)

NextConvert ==
    \/ \E file \in ConvertFiles : Upload(file, "s1", "s1")
    \/ operation_history = <<>> /\ Transform(<<RenameAC>>, NoSid)
    \/ \E operations \in ConvertRequests :
          Len(operation_history) <= MaxDepth /\ Clean(operations, NoSid)
    \/ Undo

SpecConvert == Init /\ [][NextConvert]_vars

-----------------------------------------------------------------------------
(* The original snapshot: every request that works on the table in memory, *)
(* on a file whose column names the upload sanitizes and on one it leaves  *)

SnapshotFiles == {File("csv", "csv", 1, Frame(df)) : df \in {FrameS, FrameK}}

\* create_column: self.data[new_column] = self.data.eval(expression)
CreateColumn(new_column, expression) ==
    [new_column |-> new_column, expression |-> expression] @@ Tr("create_column")

\* operations that assign a column of the table and one that assigns
\* self.data
SnapshotOps == {FillMissingB, Convert(Name("b"), "str"), RemoveDuplicates}

SnapshotTransformations == {CreateColumn(Name("c"), Name("b")), RenameAC}

SnapshotMerges == { <<Name("b"), "x", {"v", "nan"}>>, <<Name("z"), "x", {"v"}>> }

NextSnapshot ==
    \/ \E file \in SnapshotFiles : Upload(file, "s1", "s1")
    \/ \E op \in SnapshotOps : operation_history = <<>> /\ Clean(<<op>>, NoSid)
    \/ \E t \in SnapshotTransformations : Transform(<<t>>, NoSid)
    \/ \E m \in SnapshotMerges : operation_history = <<>> /\ ClusterMerge(m, NoSid)
    \/ \E f \in {Flt(Name("b"), "not_contains", "a")} : Filter(<<f>>, NoSid)
    \/ \E sample_size \in {1} : Preview(<<FillMissingB>>, sample_size, None)
    \/ Undo
    \/ Redo
    \/ Reset(NoSid)

SpecSnapshot == Init /\ [][NextSnapshot]_vars

-----------------------------------------------------------------------------
(* Properties *)

\* the requests that change the in-memory table
Mutating == {"clean", "transform", "merge"}

\* the step serves a request of one of the handlers ops, routed to the
\* in-memory table, and the response says success
Succeeds(ops) == last'.op \in ops /\ ~last'.disk /\ last'.ok

\* the step leaves the Tabular Store as it was
StoreUnchanged ==
    /\ data' = data
    /\ original_data' = original_data
    /\ operation_history' = operation_history
    /\ redo_stack' = redo_stack

\* C1: after a successful clean, transform or cluster merge on the in-memory
\* table, an undo that follows at once succeeds and makes the current table
\* the table as it was just before that request.
C1_UndoRestoresPreOperationTable ==
    [][Succeeds(Mutating) =>
          LET u == undo(Store') IN u.ok /\ u.h.data = data]_vars

\* C2: after a clean request on a loaded table, undo, redo, undo leaves the
\* table as it was before that clean; undo, redo leaves the table as it was
\* after that clean, and the lengths of both stacks as they were.
C2_StackSymmetry ==
    [][(last'.op = "clean" /\ ~last'.disk /\ data # None) =>
          LET u   == undo(Store')
              ur  == redo(u.h)
              uru == undo(ur.h)
          IN  /\ u.ok /\ ur.ok /\ uru.ok
              /\ uru.h.data = data
              /\ ur.h.data = data'
              /\ Len(ur.h.operation_history) = Len(operation_history')
              /\ Len(ur.h.redo_stack) = Len(redo_stack')]_vars

\* a clean was served on top of an earlier snapshot, of a table that is not
\* the current one
C2_CleanOnHistory ==
    /\ last.op = "clean" /\ last.ok
    /\ Len(operation_history) >= 2
    /\ operation_history[1].data # data[1]

\* C3: a successful clean, transform or cluster merge that follows an undo
\* empties the redo stack, so that a redo that follows fails.
C3_RedoUnavailableAfterNewOperation ==
    [][(last.op = "undo" /\ last.ok /\ Succeeds(Mutating)) =>
          (redo_stack' = <<>> /\ ~redo(Store').ok)]_vars

\* C4: the undo stack never holds more than max_history entries; a clean
\* served with the stack at the cap discards the oldest entry and keeps the
\* snapshot it pushed; a redo never pushes the stack past the cap.
C4_HistoryCap ==
    /\ [](Len(operation_history) <= max_history)
    /\ [][/\ (last'.op = "clean" /\ data # None
                /\ Len(operation_history) = max_history) =>
                 operation_history' =
                     Append(Tail(operation_history), [data |-> data[1]])
          /\ last'.op = "redo" => Len(operation_history') <= max_history]_vars

\* the stack is at the cap after a clean, and every snapshot older than a
\* deduplicated table has been discarded
C4_OldestDiscarded ==
    /\ last.op = "clean"
    /\ Len(operation_history) = max_history
    /\ \A i \in 1..max_history :
          operation_history[i].data = drop_duplicates(sanitize_column_names(FrameA))

\* C5: an undo on an empty undo stack, and a redo on an empty redo stack,
\* fail and leave the table, the original snapshot and both stacks as they
\* were.
C5_EmptyStackFailsUnchanged ==
    [][/\ (last'.op = "undo" /\ operation_history = <<>>) =>
             (~last'.ok /\ StoreUnchanged)
       /\ (last'.op = "redo" /\ redo_stack = <<>>) =>
             (~last'.ok /\ StoreUnchanged)]_vars

\* an undo failed while a table was loaded and the redo stack held a snapshot
C5_UndoRefused ==
    /\ last.op = "undo" /\ ~last.ok
    /\ data # None
    /\ redo_stack # <<>>

\* C6: a reset with an original snapshot succeeds, makes the current table
\* that snapshot and empties both stacks; a reset without one fails and
\* changes nothing.
C6_Reset ==
    [][last'.op = "reset" =>
          IF original_data = None
          THEN ~last'.ok /\ StoreUnchanged
          ELSE /\ last'.ok
               /\ data' = original_data
               /\ original_data' = original_data
               /\ operation_history' = <<>>
               /\ redo_stack' = <<>>]_vars

\* a reset has put back an original snapshot whose column names the upload
\* had sanitized in the current table
C6_ResetToOriginal ==
    /\ last.op = "reset" /\ last.ok
    /\ data = original_data
    /\ data # Some(sanitize_column_names(original_data[1]))
    /\ operation_history = <<>> /\ redo_stack = <<>>

\* C7: between requests the current table and the original snapshot are both
\* present or both absent.
C7_TableAndOriginalTogether == (data = None) <=> (original_data = None)

C9_SessionModeNeverChanges ==
    [][\A s \in DOMAIN sessions :
          /\ s \in DOMAIN sessions'
          /\ sessions'[s].large_mode = sessions[s].large_mode]_vars

\* C10: a transform, reset, filter or non-SQL download request that carries
\* the id of a disk-backed session fails and leaves the Tabular Store as it
\* was.
C10_UnsupportedInLargeMode ==
    [][(last'.disk /\ last'.op \in {"transform", "reset", "filter", "download"}) =>
          (~last'.ok /\ StoreUnchanged)]_vars

\* C11: a successful upload stores a disk-backed session exactly when the
\* size is at or above the threshold and the file name ends in .csv, and an
\* in-memory session otherwise; a request without a session id gets an id no
\* session has.
C11_UploadModeDecision ==
    [][\A file \in Files, sid \in Sids, id \in SessionIds :
          (Upload(file, sid, id) /\ last'.ok) =>
              /\ id \in DOMAIN sessions'
              /\ sessions'[id].large_mode =
                     (file.size >= LARGE_FILE_THRESHOLD_BYTES /\ file.ext = "csv")
              /\ sid = NoSid => id \notin DOMAIN sessions]_vars

\* an upload succeeded with a disk-backed session and an in-memory session
\* of a JSON file side by side
C11_BothModesChosen ==
    /\ last.op = "upload" /\ last.ok
    /\ \E s, t \in DOMAIN sessions :
          /\ sessions[s].large_mode
          /\ ~sessions[t].large_mode /\ sessions[t].file_type = "json"

\* C12: a clean request served on the in-memory table that reports failure
\* leaves the current table as it was before the request.
C12_CleanAtomic ==
    [][(last'.op = "clean" /\ ~last'.disk /\ ~last'.ok) => data' = data]_vars

\* the operation types a disk-backed clean serves
SupportedInLargeMode(op) ==
    \/ op.type \in {"remove_duplicates", "clean_text"}
    \/ op.type = "remove_empty" /\ op.target = "rows"

\* C13: a clean request routed to a disk-backed session succeeds only if
\* every operation of its list is remove_duplicates, clean_text or
\* remove_empty with target rows.
C13_LargeCleanSupportedOnly ==
    [][\A operations \in Lists(DiskCleanOps, MaxOps), sid \in SessionIds :
          (IsLargeSession(sessions, sid) /\ Clean(operations, sid) /\ last'.ok) =>
              \A i \in 1..Len(operations) : SupportedInLargeMode(operations[i])]_vars

\* a disk-backed clean succeeded and left a relation without duplicates
C13_LargeCleanServed ==
    /\ last.op = "clean" /\ last.disk /\ last.ok
    /\ \E s \in DOMAIN sessions :
          /\ sessions[s].large_mode
          /\ "last_cleaned" \in sessions[s].marks
          /\ sessions[s].large_file[1].total_rows = 1

\* the rows of df that satisfy every condition of filters, in their order
Conjunction(df, filters) ==
    SelectSeq(df.rows,
              LAMBDA row : \A k \in 1..Len(filters) :
                  \/ filters[k].operator \notin KnownOperators
                  \/ Matches(row[ColIdx(df, filters[k].column)], filters[k]))

\* C14: a filter request leaves the table, the original snapshot and both
\* stacks as they were, and the rows filter_data returns for a list of
\* conditions are the rows of the current table that satisfy all of them, in
\* the order of the table.
C14_FilterPureRead ==
    /\ [][last'.op = "filter" => StoreUnchanged]_vars
    /\ [](\A filters \in Lists(FilterConds, MaxOps) :
             LET r == filter_data(Store, filters)
             IN  r.h = Store /\ (r.ok => r.rows = Conjunction(data[1], filters)))

\* a filter request was served on a table of which two conditions together
\* select some rows and not all, and each of them alone selects more
C14_FilterServed ==
    /\ last.op = "filter" /\ last.ok /\ data # None
    /\ \E filters \in Lists(FilterConds, MaxOps) :
          LET r == filter_data(Store, filters)
          IN  /\ Len(filters) = 2 /\ r.ok
              /\ 0 < Len(r.rows)
              /\ Len(r.rows) < Len(filter_data(Store, <<filters[1]>>).rows)
              /\ Len(r.rows) < Len(filter_data(Store, <<filters[2]>>).rows)

\* the pages first..last of the query q, one after the other
RECURSIVE PagesTogether(_, _, _, _)
PagesTogether(ss, q, first, last_page) ==
    IF first > last_page THEN <<>>
    ELSE get_data_page(Store, ss, [q EXCEPT !.page = first]).data
         \o PagesTogether(ss, q, first + 1, last_page)

\* the pages of the query q1 over the rows matching, R of them, in the order
\* ordered: the number of rows of each page, the total each reports, and the
\* pages 1..ceil(R/S) put one after the other
PagesOf(q1, S, R, ordered) ==
    /\ \A page \in PageNumbers :
          LET P == IF page < 1 THEN 1 ELSE page
              rest == R - (P - 1) * S
              r == get_data_page(Store, sessions, [q1 EXCEPT !.page = page])
          IN  r.ok =>
                  /\ Len(r.data) = (IF rest < 0 THEN 0 ELSE IF rest < S THEN rest ELSE S)
                  /\ r.total_rows = R
    /\ (get_data_page(Store, sessions, q1).ok /\ (R + S - 1) \div S <= MaxPages) =>
          PagesTogether(sessions, q1, 1, (R + S - 1) \div S) = ordered

\* C15: a page request with effective page P = max(1, page) and effective
\* size S = min(500, max(1, page_size)) over R rows that match the WHERE clause
\* returns min(S, max(0, R - (P-1)*S)) rows and reports total_rows = R, and the
\* pages 1..ceil(R/S) put one after the other are the R matching rows in the
\* order of the query, each once.
C15_PageArithmetic ==
    \A sid \in SessionIds, page_size \in PageSizes, clause \in ValidClauses :
        IsLargeSession(sessions, sid) =>
            LET relation == sessions[sid].large_file[1].relation
                q1 == PageQuery(sid, 1, page_size, clause, TRUE)
            IN  PagesOf(q1,
                        IF page_size < 1 THEN 1 ELSE IF page_size > 500 THEN 500 ELSE page_size,
                        Len(Where(relation, q1)),
                        Select(relation, q1))

\* a page request was served while a session holds more than two pages of
\* the largest size: its third page is partial and page_size 501 is served as 500
C15_PartialLastPage ==
    /\ last.op = "page" /\ last.ok
    /\ \E sid \in SessionIds :
          /\ IsLargeSession(sessions, sid)
          /\ LET r == get_data_page(Store, sessions, PageQuery(sid, 3, 501, NoClause, TRUE))
             IN  r.ok /\ r.page_size = 500 /\ r.total_rows > 1000
                 /\ Len(r.data) > 0 /\ Len(r.data) < 500

\* the alphanumeric characters of a text
Alphanumeric(c) == c \in {"x", "X", "1"}

\* the bag of the lower-cased alphanumeric tokens of a text: its maximal runs
\* of alphanumeric characters
RECURSIVE TokenBag(_, _)
TokenBag(t, token) ==
    LET closed == IF token = <<>> THEN EmptyBag ELSE SetToBag({LowerText(token)})
    IN  IF t = <<>> THEN closed
        ELSE IF Alphanumeric(Head(t)) THEN TokenBag(Tail(t), Append(token, Head(t)))
        ELSE closed (+) TokenBag(Tail(t), <<>>)

\* C20: fingerprint(fingerprint(v)) = fingerprint(v); values whose lower-cased
\* alphanumeric tokens form the same multiset have equal fingerprints, whatever
\* the order, the case, the punctuation and the whitespace between the tokens;
\* None, an empty and an all-punctuation value have the empty fingerprint.
C20_Fingerprint ==
    last.op = "fingerprint" =>
        /\ fingerprint(Some(last.key)) = last.key
        /\ \A w \in Texts :
              (last.value # None /\ TokenBag(w, <<>>) = TokenBag(last.value[1], <<>>))
                  => fingerprint(Some(w)) = last.key
        /\ (last.value = None \/ \A i \in 1..Len(last.value[1]) : ~Alphanumeric(last.value[1][i]))
              => last.key = <<>>

\* a value of two tokens out of order, with a capital and punctuation, was
\* fingerprinted
C20_TokensReordered ==
    /\ last.op = "fingerprint"
    /\ last.value = Some(<<"X", "-", "1">>)
    /\ last.key = <<"1", " ", "x">>

\* the statements name columns of the stored list only and carry no request
\* value in their text
NamesStored(columns, statements) ==
    \A i \in 1..Len(statements) :
        statements[i].names \subseteq Range(columns) /\ statements[i].literals = {}

\* C16: every column name in the SQL text of page, disk-mode clean, cluster
\* suggest, cluster merge and facet profile is in the session's stored column
\* list; a page request with a sort or filter column outside the list fails
\* before any statement is sent; filter and search values are bound parameters.
C16_SqlNamesStored ==
    \A sid \in SessionIds :
        IsLargeSession(sessions, sid) =>
            LET columns == sessions[sid].large_file[1].columns
                Outside(c) == c # <<>> /\ c \notin Range(columns)
            IN  /\ \A clause \in PageClauses :
                      LET q == PageQuery(sid, 1, 2, clause, TRUE)
                          r == get_data_page(Store, sessions, q)
                      IN  /\ NamesStored(columns, r.sql)
                          /\ (Outside(q.sort_column) \/ Outside(q.filter_column))
                                => (~r.ok /\ r.sql = <<>>)
                          /\ (r.ok /\ HasFilter(q)) =>
                                \E i \in 1..Len(r.sql) :
                                    /\ q.filter_column \in r.sql[i].names
                                    /\ Strip(q.filter_value, Whitespace) \in Range(r.sql[i].params)
                          /\ (r.ok /\ HasSearch(q)) =>
                                \E i \in 1..Len(r.sql) :
                                    <<"%">> \o Strip(q.search_term, Whitespace) \o <<"%">>
                                        \in Range(r.sql[i].params)
                /\ \A operations \in Lists(SqlCleanOps, MaxOps) :
                      NamesStored(columns, clean_route(Store, sessions, operations, sid).sql)
                /\ \A column \in RequestColumns :
                      /\ NamesStored(columns, suggest_clusters(Store, sessions, column, sid).sql)
                      /\ NamesStored(columns, facet_profile(Store, sessions, column, sid).sql)
                /\ \A m \in Merges :
                      NamesStored(columns,
                                  apply_cluster_merge(Store, sessions, m[1], m[2], m[3], sid).sql)

\* a disk-mode clean_text that names the columns a and z has trimmed and
\* folded the first value of a
C16_CleanTextServed ==
    /\ last.op = "clean" /\ last.disk /\ last.ok
    /\ \E sid \in SessionIds :
          /\ IsLargeSession(sessions, sid)
          /\ sessions[sid].large_file[1].relation.rows[1][1] = "x"
          /\ clean_route(Store, sessions, <<TrimLowerAZ>>, sid).sql # <<>>

\* the body of a failing response has 'success' and 'error'
Uniform(resp) == ~resp.ok => {"success", "error"} \subseteq resp.body

\* C17: every request that fails, on upload, clean, filter, transform, page,
\* cluster, download, undo, redo and reset, is answered with a body that has
\* success = false and an error field.
C17_FailureBodies ==
    [][/\ \A file \in Files, sid \in Sids, id \in SessionIds :
             Upload(file, sid, id) => Uniform(upload_file(Store, sessions, file, id))
       /\ \A operations \in Lists(CleanOps, MaxOps), sid \in Sids :
             Clean(operations, sid) => Uniform(clean_route(Store, sessions, operations, sid))
       /\ \A filters \in Lists(FilterConds, MaxOps), sid \in Sids :
             Filter(filters, sid) => Uniform(filter_route(Store, sessions, filters, sid))
       /\ \A ts \in Lists(Transformations, MaxOps), sid \in Sids :
             Transform(ts, sid) => Uniform(transform_route(Store, sessions, ts, sid))
       /\ \A sid \in Sids, clause \in PageClauses, numeric \in BOOLEAN :
             Page(PageQuery(sid, 1, 2, clause, numeric))
                 => Uniform(get_data_page(Store, sessions, PageQuery(sid, 1, 2, clause, numeric)))
       /\ \A column \in RequestColumns, sid \in Sids :
             Suggest(column, sid) => Uniform(suggest_clusters(Store, sessions, column, sid))
       /\ \A m \in Merges, sid \in Sids :
             ClusterMerge(m, sid)
                 => Uniform(apply_cluster_merge(Store, sessions, m[1], m[2], m[3], sid))
       /\ \A format_type \in DownloadFormats, sid \in Sids :
             Download(format_type, sid) => Uniform(download_data(Store, sessions, format_type, sid))
       /\ Undo => Uniform(undo_operation(Store, sessions))
       /\ Redo => Uniform(redo_operation(Store, sessions))
       /\ \A sid \in Sids : Reset(sid) => Uniform(reset_data(Store, sessions, sid))]_vars

\* the body of a successful response has success, data, shape and
\* operation_log, and the log has timestamp, operation_type, details and log_id
Contract(resp) ==
    resp.ok => /\ {"success", "data", "shape", "operation_log"} \subseteq resp.body
               /\ {"timestamp", "operation_type", "details", "log_id"} \subseteq resp.operation_log

\* C18: every successful clean, transform, cluster merge, undo, redo, reset
\* and page request, in the mode that serves it, is answered with success,
\* data, shape and an operation_log of timestamp, operation_type, details and
\* log_id.
C18_ResponseContract ==
    [][/\ \A operations \in Lists(CleanOps, MaxOps), sid \in Sids :
             Clean(operations, sid) => Contract(clean_route(Store, sessions, operations, sid))
       /\ \A ts \in Lists(Transformations, MaxOps), sid \in Sids :
             Transform(ts, sid) => Contract(transform_route(Store, sessions, ts, sid))
       /\ \A m \in Merges, sid \in Sids :
             ClusterMerge(m, sid)
                 => Contract(apply_cluster_merge(Store, sessions, m[1], m[2], m[3], sid))
       /\ Undo => Contract(undo_operation(Store, sessions))
       /\ Redo => Contract(redo_operation(Store, sessions))
       /\ \A sid \in Sids : Reset(sid) => Contract(reset_data(Store, sessions, sid))
       /\ \A sid \in Sids, clause \in PageClauses :
             Page(PageQuery(sid, 1, 2, clause, TRUE))
                 => Contract(get_data_page(Store, sessions, PageQuery(sid, 1, 2, clause, TRUE)))]_vars

\* C19: a download request with format sql succeeds when the session is
\* disk-backed and when an in-memory table is loaded.
C19_SqlDownloadEitherStore ==
    [][(last'.op = "download_sql" /\ (last'.disk \/ data # None)) => last'.ok]_vars

\* the texts the suggest request of session sid scans in a column, by row: a
\* disk-backed session skips the NULL cells, the in-memory table reads them
ScannedTexts(sid, column) ==
    IF IsLargeSession(sessions, sid)
    THEN LET rel == sessions[sid].large_file[1].relation
             c == ColIdx(rel, column)
         IN  {<<i, Text(rel.rows[i][c])>> : i \in {j \in 1..Len(rel.rows) : rel.rows[j][c] # NaN}}
    ELSE LET c == ColIdx(data[1], column)
         IN  {<<i, Text(data[1].rows[i][c])>> : i \in 1..Len(data[1].rows)}

\* the scanned values with one fingerprint
GroupOf(sid, column, key) ==
    {p[2] : p \in {q \in ScannedTexts(sid, column) : fingerprint(Some(q[2])) = key}}

\* the fingerprints, other than the empty one, of at least two scanned values
GroupKeys(sid, column) ==
    {key \in {fingerprint(Some(p[2])) : p \in ScannedTexts(sid, column)} \ {<<>>} :
        Cardinality(GroupOf(sid, column, key)) >= 2}

\* the clusters are those of the response to the suggest request
SuggestedRight(sid, column, clusters) ==
    /\ {clusters[i].key : i \in 1..Len(clusters)} \subseteq GroupKeys(sid, column)
    /\ Len(clusters) = Cardinality({clusters[i].key : i \in 1..Len(clusters)})
    /\ Len(clusters) = IF Cardinality(GroupKeys(sid, column)) <= MaxClusters
                       THEN Cardinality(GroupKeys(sid, column)) ELSE MaxClusters
    /\ \A i \in 1..Len(clusters) :
          LET members == clusters[i].members
          IN  /\ {members[a].value : a \in 1..Len(members)} = GroupOf(sid, column, clusters[i].key)
              /\ Len(members) = Cardinality(GroupOf(sid, column, clusters[i].key))
              /\ clusters[i].size = Len(members)
              /\ clusters[i].canonical = members[1].value
              /\ \A a \in 1..Len(members) :
                    /\ fingerprint(Some(members[a].value)) = clusters[i].key
                    /\ members[a].count =
                          Cardinality({p \in ScannedTexts(sid, column) : p[2] = members[a].value})
              /\ \A a, b \in 1..Len(members) :
                    a < b => \/ members[a].count > members[b].count
                             \/ /\ members[a].count = members[b].count
                                /\ ValueLess(members[a].value, members[b].value)
    /\ \A i, j \in 1..Len(clusters) :
          i < j => \/ clusters[i].size > clusters[j].size
                   \/ /\ clusters[i].size = clusters[j].size
                      /\ ValueLess(clusters[i].canonical, clusters[j].canonical)

\* C21: cluster suggest returns exactly the fingerprint groups of at least two
\* scanned values, the empty fingerprint left out; the members of a cluster
\* share its fingerprint and are ordered by count descending, then value
\* ascending; canonical is the first member; the clusters are ordered by size
\* descending, then canonical ascending, and there are at most 200 of them
C21_SuggestedClusters ==
    \A sid \in {"s1", NoSid}, column \in RequestColumns :
        LET resp == suggest_clusters(Store, sessions, column, sid)
        IN  resp.ok => SuggestedRight(sid, column, resp.clusters)

\* a suggest request was served for a column with a cluster of three values
\* before one of two, whose first member has the greater count and not the
\* least value
C21_TwoClustersByCount ==
    /\ last.op = "suggest" /\ last.ok
    /\ LET clusters == suggest_clusters(Store, sessions, Name("a"), "s1").clusters
       IN  /\ Len(clusters) = 2
           /\ clusters[1].size = 3 /\ clusters[2].size = 2
           /\ clusters[1].members[1].count = 2
           /\ ValueLess(clusters[1].members[2].value, clusters[1].canonical)

\* no value of the column occurs in more than one of the rows the request scans
AllUnique(sid, column) ==
    \A p, q \in ScannedTexts(sid, column) : p[2] = q[2] => p[1] = q[1]

\* no two different scanned values have one fingerprint, the empty one aside
FingerprintsDiffer(sid, column) ==
    \A p, q \in ScannedTexts(sid, column) :
        (p[2] # q[2] /\ fingerprint(Some(p[2])) # <<>>)
            => fingerprint(Some(p[2])) # fingerprint(Some(q[2]))

\* C22, as stated: cluster suggest on a column whose values are all unique, no
\* value in more than one row, returns zero clusters
C22_UniqueValuesNoClusters ==
    \A sid \in {"s1", NoSid}, column \in RequestColumns :
        LET resp == suggest_clusters(Store, sessions, column, sid)
        IN  (resp.ok /\ AllUnique(sid, column)) => resp.clusters = <<>>

\* C22, amended: cluster suggest returns zero clusters on a column in which no
\* two different values share a fingerprint other than the empty one
C22_DistinctFingerprintsNoClusters ==
    \A sid \in {"s1", NoSid}, column \in RequestColumns :
        LET resp == suggest_clusters(Store, sessions, column, sid)
        IN  (resp.ok /\ FingerprintsDiffer(sid, column)) => resp.clusters = <<>>

\* a suggest request was served for a column of three values that all differ
\* and share no fingerprint, and it has no cluster
C22_UniqueColumnServed ==
    /\ last.op = "suggest" /\ last.ok
    /\ Cardinality(ScannedTexts("s1", Name("a"))) = 3
    /\ AllUnique("s1", Name("a")) /\ FingerprintsDiffer("s1", Name("a"))
    /\ suggest_clusters(Store, sessions, Name("a"), "s1").clusters = <<>>

\* the relation of the disk-backed session sid
RelationOf(ss, sid) == ss[sid].large_file[1].relation

\* the rows of the relation of session sid whose value in the column, as
\* text, is one of values
RowsIn(sid, column, values) ==
    LET rel == RelationOf(sessions, sid)
    IN  {i \in 1..Len(rel.rows) :
            /\ rel.rows[i][ColIdx(rel, column)] # NaN
            /\ Text(rel.rows[i][ColIdx(rel, column)]) \in {Text(v) : v \in values}}

\* C23: in disk-backed mode apply_merge(column, canonical, values) sets to
\* canonical exactly the rows whose value in the column, as text, is one of
\* values, reports as changed_rows the number of these rows before the
\* update, and leaves the number of rows of the relation as it was
C23_DiskMerge ==
    [][\A m \in ClusterMerges, sid \in SessionIds :
          LET resp == apply_cluster_merge(Store, sessions, m[1], m[2], m[3], sid)
              before == RelationOf(sessions, sid)
              after == RelationOf(sessions', sid)
              c == ColIdx(before, m[1])
          IN  (IsLargeSession(sessions, sid) /\ ClusterMerge(m, sid) /\ resp.ok)
                  => /\ Len(after.rows) = Len(before.rows)
                     /\ resp.shape[1] = Len(before.rows)
                     /\ resp.changed_rows = Some(Cardinality(RowsIn(sid, m[1], m[3])))
                     /\ \A i \in 1..Len(before.rows) :
                           after.rows[i] =
                               IF i \in RowsIn(sid, m[1], m[3])
                               THEN [before.rows[i] EXCEPT ![c] = m[2]]
                               ELSE before.rows[i]]_vars

\* a disk-backed merge was served and the relation holds the canonical value
\* in several rows next to a value that was not in the list
C23_MergedRelation ==
    /\ last.op = "merge" /\ last.disk /\ last.ok
    /\ LET rel == RelationOf(sessions, "s1")
       IN  /\ Cardinality({i \in 1..Len(rel.rows) : rel.rows[i][1] = "x"}) >= 2
           /\ \E i \in 1..Len(rel.rows) : rel.rows[i][1] = "V"
           /\ \E i \in 1..Len(rel.rows) : rel.rows[i][1] = NaN

\* C24: in disk-backed mode the rows whose value in the column already equals
\* canonical are not counted in changed_rows, also when canonical is itself
\* one of values
C24_CanonicalRowsNotCounted ==
    [][\A m \in ClusterMerges, sid \in SessionIds :
          LET resp == apply_cluster_merge(Store, sessions, m[1], m[2], m[3], sid)
              rel == RelationOf(sessions, sid)
          IN  (IsLargeSession(sessions, sid) /\ ClusterMerge(m, sid) /\ resp.ok)
                  => resp.changed_rows =
                         Some(Cardinality({i \in RowsIn(sid, m[1], m[3]) :
                                 Text(rel.rows[i][ColIdx(rel, m[1])]) # Text(m[2])}))]_vars

\* the rows that equal no earlier row in all columns
FirstOccurrences(rows) == {i \in 1..Len(rows) : \A j \in 1..(i - 1) : rows[j] # rows[i]}

\* the rows with an index in keep, in their order
Kept_rows(rows, keep) ==
    [k \in 1..Cardinality(keep) |->
        rows[CHOOSE i \in keep : Cardinality({j \in keep : j <= i}) = k]]

\* C25: in-memory remove_duplicates keeps the first occurrence of every
\* distinct row in the original order, drops every later row equal to it in
\* all columns and reports removed = rows before - rows after; for the table
\* of 5 rows and 3 columns with one duplicate row the shape is [4, 3] and
\* removed is 1
C25_RemoveDuplicates ==
    [][LET resp == clean_route(Store, sessions, <<RemoveDuplicates>>, NoSid)
       IN  (data # None /\ Clean(<<RemoveDuplicates>>, NoSid))
               => /\ resp.ok
                  /\ data'[1].rows = Kept_rows(data[1].rows, FirstOccurrences(data[1].rows))
                  /\ data'[1].columns = data[1].columns
                  /\ Len(resp.results) = 1
                  /\ resp.results[1].removed = Len(data[1].rows) - Len(data'[1].rows)
                  /\ resp.shape = <<Len(data'[1].rows), Len(data[1].columns)>>
                  /\ data[1] = FrameR => (resp.shape = <<4, 3>> /\ resp.results[1].removed = 1)]_vars

\* the duplicates of the table of 5 rows and 3 columns were removed: undo has
\* the five rows, the table the other four in their order
C25_OneDuplicateRemoved ==
    /\ last.op = "clean" /\ last.ok
    /\ operation_history # <<>> /\ operation_history[1].data = FrameR
    /\ data # None
    /\ data[1].rows = <<FrameR.rows[1], FrameR.rows[2], FrameR.rows[4], FrameR.rows[5]>>

\* the cells of the column n of a table
ColumnN(df) == [i \in 1..Len(df.rows) |-> df.rows[i][ColIdx(df, Name("n"))]]

\* the rows of the table whose value in the column n lies outside
\* [Q1 - 1.5 * IQR, Q3 + 1.5 * IQR], the quartiles taken over the whole column;
\* a missing value lies in no interval
Outliers(df) ==
    LET sorted == SortedNumbers(df, ColIdx(df, Name("n")), 1)
        Q1 == quantile(sorted, 1)[1]
        Q3 == quantile(sorted, 3)[1]
    IN  {i \in 1..Len(df.rows) :
            \/ ColumnN(df)[i] = NaN
            \/ 8 * Number(ColumnN(df)[i]) < 2 * Q1 - 3 * (Q3 - Q1)
            \/ 8 * Number(ColumnN(df)[i]) > 2 * Q3 + 3 * (Q3 - Q1)}

SameAnswer(resp) ==
    resp.ok =>
        /\ Answer([session_folder EXCEPT !.writable = FALSE], resp) = resp
        /\ Answer([session_folder EXCEPT !.writable = TRUE], resp) = resp
        /\ last'.ok
        /\ sessions' = resp.sessions
        /\ data' = resp.h.data /\ operation_history' = resp.h.operation_history

\* C27: a failure of the write of the session file never changes the outcome
\* of the request that made it: when the upload, clean, transform, merge or
\* reset succeeded, the response is the same success response whether or not
\* the write failed
C27_WriteFailureTolerated ==
    [][/\ \A file \in FolderFiles :
             Upload(file, "s1", "s1") => SameAnswer(upload_file(Store, sessions, file, "s1"))
       /\ \A operations \in FolderCleans, sid \in FolderSids :
             Clean(operations, sid) => SameAnswer(clean_route(Store, sessions, operations, sid))
       /\ \A sid \in FolderSids :
             Transform(<<RenameAC>>, sid)
                 => SameAnswer(transform_route(Store, sessions, <<RenameAC>>, sid))
       /\ \A m \in Merges, sid \in FolderSids :
             ClusterMerge(m, sid)
                 => SameAnswer(apply_cluster_merge(Store, sessions, m[1], m[2], m[3], sid))
       /\ \A sid \in FolderSids :
             Reset(sid) => SameAnswer(reset_data(Store, sessions, sid))]_vars

\* a clean request with the id of a session succeeded while the folder took
\* no write: the session has its last_cleaned marker, its file does not
C27_CleanedWithoutFile ==
    /\ last.op = "clean" /\ last.ok
    /\ ~session_folder.writable
    /\ "s1" \in DOMAIN sessions /\ "s1" \in DOMAIN session_folder.files
    /\ "last_cleaned" \in sessions["s1"].marks
    /\ "last_cleaned" \notin session_folder.files["s1"].marks

\* C28: requests are serialized with respect to the in-memory table and its
\* stacks: the steps of a clean request (save_state, clean_data, publishing)
\* are not interleaved with those of another request, so the snapshot a
\* request pushed for undo is the table its operations were applied to
C28_RequestsSerialized ==
    \A w \in Workers :
        running[w].pc = "cleaned" => running[w].snapshot = running[w].input

\* the relation a disk-backed clean leaves after its first k operations
AfterOperations(rel, columns, operations, k) ==
    LargeCleanLoop(rel, columns, SubSeq(operations, 1, k), 1).rel

\* a request that ran all its statements left what clean_route leaves
StatementsAgree ==
    [][(running["w1"].pc = "disk" /\ Head(running["w1"].statements).kind = "finish"
        /\ DiskCleanStatement("w1") /\ last'.ok)
           => RelationOf(sessions', "s1") =
                  AfterOperations(running["w1"].snapshot[1], sessions["s1"].large_file[1].columns,
                                  running["w1"].operations, Len(running["w1"].operations))]_vars

\* C29: a disk-mode clean call that is cancelled or crashes between its
\* statements leaves a relation of the session's name, holding the contents
\* before the call or those after a completed operation; during
\* remove_duplicates there is no state in which the named relation is missing
C29_CancelledCleanKeepsRelation ==
    [][\A w \in Workers :
          Crash(w) =>
              LET r == running[w]
                  rel == RelationOf(sessions', r.sid)
              IN  /\ rel.columns # <<>>
                  /\ \E k \in 0..Len(r.operations) :
                        rel = AfterOperations(r.snapshot[1], sessions[r.sid].large_file[1].columns,
                                              r.operations, k)]_vars

\* the session sid has the marker after the step, and its file is the
\* session as it is after the step when the folder takes the write
Marked(sid, marker) ==
    /\ sid \in DOMAIN sessions'
    /\ marker \in sessions'[sid].marks
    /\ session_folder.writable
           => /\ sid \in DOMAIN session_folder'.files
              /\ session_folder'.files[sid] = Metadata(sessions'[sid])

\* C30: every successful clean, transform, cluster merge and reset that
\* carries the id of a known session, in either mode, puts a last-modified
\* marker into the metadata of that session and rewrites its persisted
\* record; no operation removes a session from the session map
C30_MutationsMarkSession ==
    [][/\ DOMAIN sessions \subseteq DOMAIN sessions'
       /\ \A sid \in DOMAIN sessions :
             /\ \A operations \in FolderCleans :
                   (Clean(operations, sid) /\ last'.ok) => Marked(sid, "last_cleaned")
             /\ (Transform(<<RenameAC>>, sid) /\ last'.ok) => Marked(sid, "last_transformed")
             /\ \A m \in Merges :
                   (ClusterMerge(m, sid) /\ last'.ok) => Marked(sid, "last_cluster_merge")
             /\ (Reset(sid) /\ last'.ok) => Marked(sid, "last_reset")]_vars

\* C31: a clean or transform request with an operation whose type is not one
\* of the known operation types fails, on the in-memory table as well as on a
\* disk-backed session.
C31_UnknownTypeFails ==
    [][/\ \A operations \in Lists(TypeCleans, MaxOps), sid \in FolderSids :
             (/\ Clean(operations, sid)
              /\ \E i \in 1..Len(operations) : operations[i].type \notin CleanTypes)
                 => ~last'.ok
       /\ \A ts \in Lists(TypeTransformations, MaxOps), sid \in FolderSids :
             (/\ Transform(ts, sid)
              /\ \E i \in 1..Len(ts) : ts[i].type \notin TransformTypes)
                 => ~last'.ok]_vars

\* the same for the requests served by a disk-backed session, which holds
C31_UnknownTypeFailsOnDisk ==
    [][\A operations \in Lists(TypeCleans, MaxOps), sid \in FolderSids :
          (/\ Clean(operations, sid)
           /\ IsLargeSession(sessions, sid)
           /\ \E i \in 1..Len(operations) : operations[i].type \notin CleanTypes)
              => ~last'.ok]_vars

\* the first n rows of rows
FirstRows(rows, n) == [i \in 1..(IF n < Len(rows) THEN n ELSE Len(rows)) |-> rows[i]]

\* the rows a preview works on: the rows of the request when it sends any,
\* the current table otherwise
PreviewBase(source_data) ==
    IF source_data # None /\ source_data[1].rows # <<>> THEN source_data ELSE data

C33_MergeChangesListedCellsOnly ==
    [][\A m \in ClusterMerges, sid \in FolderSids :
          (ClusterMerge(m, sid) /\ ~IsLargeSession(sessions, sid) /\ last'.ok) =>
              LET before == data[1]
                  after == data'[1]
                  c == ColIdx(before, m[1])
              IN  /\ after.columns = before.columns
                  /\ Len(after.rows) = Len(before.rows)
                  /\ \A i \in 1..Len(before.rows), j \in 1..Len(before.columns) :
                        (j # c \/ before.rows[i][j] = NaN \/ before.rows[i][j] \notin m[3])
                            => after.rows[i][j] = before.rows[i][j]]_vars

\* the same for the cells that hold a value: it holds
C33_MergeKeepsOtherValues ==
    [][\A m \in ClusterMerges, sid \in FolderSids :
          (ClusterMerge(m, sid) /\ ~IsLargeSession(sessions, sid) /\ last'.ok) =>
              LET before == data[1]
                  after == data'[1]
                  c == ColIdx(before, m[1])
              IN  /\ after.columns = before.columns
                  /\ Len(after.rows) = Len(before.rows)
                  /\ \A i \in 1..Len(before.rows), j \in 1..Len(before.columns) :
                        (j # c \/ (before.rows[i][j] # NaN /\ before.rows[i][j] \notin m[3]))
                            => after.rows[i][j] = before.rows[i][j]
                  /\ \A i \in 1..Len(before.rows) :
                        (before.rows[i][c] # NaN /\ before.rows[i][c] \in m[3])
                            => after.rows[i][c] = m[2]]_vars

\* the session file of sid says the session is disk-backed
PersistedLarge(sid) ==
    /\ sid \in DOMAIN session_folder.files
    /\ session_folder.files[sid].large_mode

\* C34: a clean or merge request that carries the id of a session whose
\* persisted record is disk-backed is served by the relational store and
\* leaves the in-memory table alone, also after a restart has emptied the
\* session map.
C34_DiskSessionSurvivesRestart ==
    [][\A sid \in SessionIds :
          /\ \A operations \in RestartCleans :
                (Clean(operations, sid) /\ PersistedLarge(sid)) =>
                    (last'.disk /\ StoreUnchanged)
          /\ \A m \in Merges :
                (ClusterMerge(m, sid) /\ PersistedLarge(sid)) =>
                    (last'.disk /\ StoreUnchanged)]_vars

\* without a restart in between the session map agrees with the session
\* files on the mode of every session it holds: it holds
C34_MapAgreesWithFiles ==
    \A sid \in DOMAIN sessions : sessions[sid].large_mode = PersistedLarge(sid)

\* C35: after a successful in-memory upload the undo stack and the redo stack
\* are empty, so that an undo or a redo issued right after it fails.
C35_UploadClearsStacks ==
    [][(last'.op = "upload" /\ ~last'.disk /\ last'.ok /\ data' # None) =>
          /\ operation_history' = <<>>
          /\ redo_stack' = <<>>]_vars

\* C36: right after a successful in-memory upload the original snapshot
\* equals the current table, column names included.
C36_OriginalEqualsUploaded ==
    [][(last'.op = "upload" /\ ~last'.disk /\ last'.ok /\ data' # None) =>
          original_data' = data']_vars

\* the same up to the column names: the rows of the snapshot are the rows of
\* the table, and the snapshot has as many columns.  It holds.
C36_OriginalRowsEqualUploaded ==
    [][(last'.op = "upload" /\ ~last'.disk /\ last'.ok /\ data' # None) =>
          /\ original_data'[1].rows = data'[1].rows
          /\ Len(original_data'[1].columns) = Len(data'[1].columns)]_vars

\* the row count in the metadata of every disk-backed session is the number
\* of rows of its relation
RowCountsAgree(ss) ==
    \A s \in DOMAIN ss :
        ss[s].large_mode =>
            ss[s].large_file[1].total_rows = Len(ss[s].large_file[1].relation.rows)

\* C37: after every clean or merge request on a disk-backed session, whether
\* it succeeds or fails, the row count in the session metadata is the number
\* of rows of the relation, and a request that fails leaves the relation as
\* it was.
C37_RowCountFollowsRelation ==
    [][(last'.disk /\ last'.op \in {"clean", "merge"}) =>
          /\ RowCountsAgree(sessions')
          /\ ~last'.ok =>
                \A s \in DOMAIN sessions :
                    sessions[s].large_mode =>
                        sessions'[s].large_file[1].relation = sessions[s].large_file[1].relation]_vars

\* the same for the requests that succeed: it holds
C37_RowCountAfterSuccess ==
    [][(last'.disk /\ last'.op \in {"upload", "clean", "merge"} /\ last'.ok) =>
          RowCountsAgree(sessions')]_vars

\* C38: between requests the table held by the chart and the statistics
\* collaborators is the current table of the Tabular Store, after successful
\* and after failed requests.
C38_CollaboratorsHoldCurrentTable ==
    /\ collaborators.visualizer.data = data
    /\ collaborators.stats_calculator.data = data

\* the same after the requests that succeed: it holds
C38_CollaboratorsAfterSuccess ==
    last.ok => /\ collaborators.visualizer.alias
               /\ collaborators.stats_calculator.alias
               /\ C38_CollaboratorsHoldCurrentTable

\* the table of a clean request after the first n of its operations
AfterOps(operations, n) ==
    CleanLoop(data[1], original_data, SubSeq(operations, 1, n), 1).df

\* C39: in a clean request on the in-memory table every operation of the
\* list is applied and answered with an entry, the entry of a convert_type
\* carries an error only if the operation left the table as it was, and a
\* conversion that succeeds has no error in its entry, also on a column that
\* a transform renamed or the upload sanitized.
C39_ConvertErrorMeansUnchanged ==
    [][\A operations \in ConvertRequests :
          (Clean(operations, NoSid) /\ data # None) =>
              LET r == clean_route(Store, sessions, operations, NoSid)
              IN  /\ r.ok
                  /\ Len(r.results) = Len(operations)
                  /\ data' = Some(AfterOps(operations, Len(operations)))
                  /\ \A i \in 1..Len(operations) :
                        operations[i].type = "convert_type" =>
                            LET before == AfterOps(operations, i - 1)
                                after == AfterOps(operations, i)
                                column == operations[i].column
                            IN  /\ "error" \in DOMAIN r.results[i] => after = before
                                /\ (/\ HasCol(before, column)
                                    /\ ~astype(before, ColIdx(before, column),
                                               operations[i].target_type).raised)
                                       => "error" \notin DOMAIN r.results[i]]_vars

\* the same for the columns that have their name in the original snapshot:
\* it holds
C39_ConvertOnOriginalColumns ==
    [][\A operations \in ConvertRequests :
          (Clean(operations, NoSid) /\ data # None) =>
              LET r == clean_route(Store, sessions, operations, NoSid)
              IN  /\ r.ok
                  /\ Len(r.results) = Len(operations)
                  /\ \A i \in 1..Len(operations) :
                        (/\ operations[i].type = "convert_type"
                         /\ original_data # None
                         /\ HasCol(original_data[1], operations[i].column)) =>
                            LET before == AfterOps(operations, i - 1)
                                after == AfterOps(operations, i)
                                column == operations[i].column
                            IN  /\ "error" \in DOMAIN r.results[i] => after = before
                                /\ (/\ HasCol(before, column)
                                    /\ ~astype(before, ColIdx(before, column),
                                               operations[i].target_type).raised)
                                       => "error" \notin DOMAIN r.results[i]]_vars

\* C40: no clean, transform, cluster merge, filter, preview, undo, redo or
\* reset changes the original snapshot, and the current table and the
\* snapshot are never one DataFrame object.
C40_SnapshotImmutable ==
    /\ [][last'.op \in {"clean", "transform", "merge", "filter", "preview",
                        "undo", "redo", "reset"} =>
             original_data' = original_data]_vars
    /\ [](~aliased)

\* a column of the table was assigned after a reset: the table has the
\* column names of the file, which an upload leaves sanitized, and differs
\* from the snapshot
C40_MutatedAfterReset ==
    /\ last.op \in {"clean", "transform", "merge"}
    /\ last.ok
    /\ data # None
    /\ original_data # None
    /\ HasCol(data[1], <<"1", " ">>)
    /\ HasCol(original_data[1], <<"1", " ">>)
    /\ data # original_data

=============================================================================
